---- MODULE Spec2Model ----
(***************************************************************************)
(* Verification model of spendro's streaming ingestion pipeline            *)
(* (processPdfExpenses and the helpers it awaits) and of category          *)
(* resolution (getOrCreateCategoryByName), over a PocketBase store whose   *)
(* unique indexes are the ones the migration script creates.               *)
(*                                                                         *)
(* One action per await point of the code: everything the code does        *)
(* between two awaits is local to the flow and runs inside one action.     *)
(* A remote call (pb.collection(...).create/update/getList, the AI         *)
(* stream) either resolves or rejects; a rejected write is not applied.    *)
(* Rejections that do not follow from the store's state (network, auth)    *)
(* are drawn nondeterministically and counted in `faults`.                 *)
(***************************************************************************)
EXTENDS Integers, Sequences, FiniteSets, TLC

(***************************************************************************)
(* Bounds and fixtures                                                     *)
(***************************************************************************)
\* Environment faults (rejected remote calls) injected in one behaviour.
MaxFaults == 2

Users == {"u1", "u2"}

\* One statement record = one call of processPdfExpenses (upload.ts:66-79).
Statements == {"s1", "s2"}

MAX_CATEGORIES_PER_USER == 20

\* Names of the categories a user who is two short of the cap already has
\* besides "Dining": digit strings, which letter case leaves as they are.
FillerNames == {ToString(i) : i \in 1..(MAX_CATEGORIES_PER_USER - 2)}

\* Strings of the fixtures, each with its toLowerCase() and toUpperCase().
CaseTable ==
  { <<"", "", "">>,
    <<"Dining", "dining", "DINING">>,
    <<"dining", "dining", "DINING">>,
    <<"DINING", "dining", "DINING">>,
    <<"Travel", "travel", "TRAVEL">>,
    <<"travel", "travel", "TRAVEL">>,
    <<"Other", "other", "OTHER">>,
    <<"Groceries", "groceries", "GROCERIES">>,
    <<"Starbucks", "starbucks", "STARBUCKS">>,
    <<"starbucks", "starbucks", "STARBUCKS">>,
    <<"STARBUCKS", "starbucks", "STARBUCKS">>,
    <<"starbucks ", "starbucks ", "STARBUCKS ">>,
    <<"Grab", "grab", "GRAB">>,
    <<"GRAB", "grab", "GRAB">> }
  \cup {<<n, n, n>> : n \in FillerNames}

toLowerCase(s) == (CHOOSE t \in CaseTable : t[1] = s)[2]

toUpperCase(s) == (CHOOSE t \in CaseTable : t[1] = s)[3]

\* Strings of the fixtures that String.prototype.trim() shortens.
TrimTable == { <<"starbucks ", "starbucks">> }

trim(s) ==
  IF \E t \in TrimTable : t[1] = s
  THEN (CHOOSE t \in TrimTable : t[1] = s)[2]
  ELSE s

\* Date strings as the store returns them, each with what
\* normalizeDateString makes of it and its place in "-date" order.
DateTable ==
  { <<"2024-01-01 00:00:00.000Z", "2024-01-01", 1>>,
    <<"2024-01-02 00:00:00.000Z", "2024-01-02", 2>> }

normalizeDateString(dateStr) == (CHOOSE t \in DateTable : t[1] = dateStr)[2]

DateRank(dateStr) == (CHOOSE t \in DateTable : t[1] = dateStr)[3]

BASE_CURRENCY == "SGD"

\* Items the extraction model produces (AIExpenseInput before coercion).
Item(d, desc, m, c, amt, cur) ==
  [date |-> d, description |-> desc, merchant |-> m, category |-> c,
   original_amount |-> amt, original_currency |-> cur]

ItemCoffee == Item("2024-01-01", "Coffee", "Starbucks", "Dining", 5, "SGD")

ItemHotel == Item("2024-01-02", "Hotel", "", "Dining", 7, "USD")

ItemAirport == Item("2024-01-03", "Airport", "starbucks", "Groceries", 7, "USD")

ItemLunch == Item("2024-01-04", "Lunch", "", "Dining", 9, "SGD")

ItemTaxi == Item("2024-01-05", "Taxi", "", "Transport", 11, "SGD")

\* What the schema's string transform returns for a string that is not
\* JSON (its catch block).
ItemInvalidJson == Item("", "Invalid JSON", "", "Other", 0, "SGD")

NoItem == Item("", "", "", "", 0, "SGD")

\* The documents a user may upload, as the sequence of items the model
\* streams for them.
Documents ==
  [ empty  |-> << >>,
    local  |-> << ItemCoffee, ItemHotel >>,
    abroad |-> << ItemAirport >>,
    mixed  |-> << ItemCoffee, ItemHotel, ItemInvalidJson, ItemLunch,
                  ItemTaxi >> ]

\* The documents of the general flows; "mixed" is the five-candidate
\* scenario.
DocNames == {"empty", "local", "abroad"}

\* Callers of category resolution outside an ingestion flow (expense edits,
\* bulk reassignment), the names they ask for and how many calls each makes.
Clients == {"a", "b"}

RequestedNames == {"Travel", "travel", "Dining"}

\* Expense records a viewer can see: ids the store hands out.
ExpenseIds == {"e1", "e2"}

IdRank(id) == IF id = "e1" THEN 1 ELSE 2

\* What a writer stores under an expense id.
Row(st, d, desc, m, amt) ==
  [statement_id |-> st, date |-> d, description |-> desc, merchant |-> m,
   amount_sgd |-> amt]

RowCoffee == Row("s1", "2024-01-01 00:00:00.000Z", "Coffee", "Starbucks", 5)

RowLatte == Row("s1", "2024-01-01 00:00:00.000Z", "Latte", "starbucks ", 5)

RowBlank == Row("s1", "2024-01-01 00:00:00.000Z", "", "Starbucks", 7)

RowLater == Row("s1", "2024-01-02 00:00:00.000Z", "Coffee", "Starbucks", 5)

RowElsewhere == Row("s2", "2024-01-01 00:00:00.000Z", "Coffee", "Starbucks", 5)

Rows == {RowCoffee, RowLatte, RowBlank, RowLater, RowElsewhere}

\* statementIds argument of useUploadExpenses.
TrackedStatements == {"s1"}

\* Writes to the expenses collection in one behaviour.
MaxWrites == 2

\* Concurrent uploadStatement calls, and the digests of the files sent.
Uploads == {"p1", "p2"}

Checksums == {"k1", "k2"}

\* const MAX_FILE_SIZE = 10 * 1024 * 1024
MAX_FILE_SIZE == 10 * 1024 * 1024

\* formData.get("file"): nothing, or a File with its size, its type and
\* the sha256 digest of its bytes.
NoFile == [size |-> 0, type |-> "none", digest |-> ""]

FileOf(size, type, digest) == [size |-> size, type |-> type, digest |-> digest]

Files == { NoFile,
           FileOf(0, "application/pdf", "k0"),
           FileOf(1024, "text/plain", "k1"),
           FileOf(MAX_FILE_SIZE + 1, "application/pdf", "k1"),
           FileOf(MAX_FILE_SIZE, "application/pdf", "k1"),
           FileOf(1024, "application/pdf", "k2") }

\* record?.id ?? null of a request without an auth cookie.
NoUserId == ""

\* uploadStatement calls in one behaviour.
MaxUploads == 3

\* JavaScript values the model's array elements and their fields can be:
\* the type, and the text or the number where the type has one.
JsString(text) == [t |-> "string", s |-> text, n |-> 0]

JsNumber(num) == [t |-> "number", s |-> "", n |-> num]

JsNull == [t |-> "null", s |-> "", n |-> 0]

JsUndefined == [t |-> "undefined", s |-> "", n |-> 0]

JsTrue == [t |-> "boolean", s |-> "true", n |-> 1]

\* A nested plain object, and an array, as a field's value.
JsNested == [t |-> "object", s |-> "[object Object]", n |-> 0]

FieldNames == {"date", "description", "merchant", "category",
               "original_amount", "original_currency"}

NoFields == [k \in FieldNames |-> JsUndefined]

\* An array element: its type, its text (a string element) and its
\* properties (an object element).
Element(type, text, fields) == [t |-> type, s |-> text, f |-> fields]

Object(d, desc, m, c, amt, cur) ==
  Element("object", "",
          [date |-> d, description |-> desc, merchant |-> m, category |-> c,
           original_amount |-> amt, original_currency |-> cur])

ObjectValid ==
  Object(JsString("2024-01-01"), JsString("Coffee"), JsString("Starbucks"),
         JsString("Dining"), JsNumber(5), JsString("SGD"))

ObjectOther ==
  Object(JsString("2024-01-02"), JsString("Fee"), JsString(""),
         JsString("Other"), JsNumber(0), JsString("SGD"))

ObjectUnknownCategory ==
  Object(JsString("2024-01-03"), JsString("Bet"), JsString("Casino"),
         JsString("Gambling"), JsNumber(7), JsString("USD"))

ObjectMissingFields ==
  Object(JsUndefined, JsString("Coffee"), JsUndefined, JsUndefined,
         JsUndefined, JsUndefined)

ObjectWrongTypes ==
  Object(JsNumber(20240101), JsNull, JsTrue, JsNested, JsString("12"),
         JsNested)

ObjectFalsy ==
  Object(JsNumber(0), JsString(""), JsNull, JsNumber(5), JsString("abc"),
         JsString(""))

TextValid == "{\"date\":\"2024-01-01\",\"category\":\"Dining\",...}"

TextUnknownCategory == "{\"date\":\"2024-01-03\",\"category\":\"Gambling\",...}"

TextWrongTypes == "{\"date\":20240101,\"original_amount\":\"12\",...}"

RawElements ==
  { ObjectValid, ObjectOther, ObjectUnknownCategory, ObjectMissingFields,
    ObjectWrongTypes, ObjectFalsy,
    Element("object", "", NoFields),
    Element("array", "", NoFields),
    Element("null", "", NoFields),
    Element("number", "5", NoFields),
    Element("boolean", "true", NoFields),
    Element("string", TextValid, NoFields),
    Element("string", TextUnknownCategory, NoFields),
    Element("string", TextWrongTypes, NoFields),
    Element("string", "not json", NoFields),
    Element("string", "null", NoFields),
    Element("string", "5", NoFields),
    Element("string", "[]", NoFields),
    Element("string", "", NoFields) }

\* JSON.parse(data): the value, or a SyntaxError.
SyntaxError == Element("SyntaxError", "", NoFields)

JsonTable ==
  { <<TextValid, ObjectValid>>,
    <<TextUnknownCategory, ObjectUnknownCategory>>,
    <<TextWrongTypes, ObjectWrongTypes>>,
    <<"null", Element("null", "", NoFields)>>,
    <<"5", Element("number", "5", NoFields)>>,
    <<"[]", Element("array", "", NoFields)>> }

\* Number(text) of the texts in use: the number, or NaN (absent).
NumberTable == { <<"12", 12>>, <<"", 0>> }

\* userCategories of the callers.
CategorySets == { {}, {"Dining"}, {"Dining", "Gambling"}, {"Other", "Travel"} }

\* Elements the model produces in one stream.
MaxElements == 2

\* Merchant names and categories the mapping calls are made with.
MerchantNames == {"Starbucks", "starbucks", "Grab"}

MappingCategories == {"Dining", "Travel"}

\* Concurrent uploadToStorage calls of one server process.
StorageCalls == {"c1", "c2", "c3"}

\* Names the callers of createCategory ask for.
CreatedNames == {"Travel", "Other"}

\* Resolutions the clients make in one behaviour, all clients together.
MaxCalls == 2

\* Exchange rate applied to a foreign amount when the rate source answers.
FxRate == 2

(***************************************************************************)
(* State                                                                   *)
(***************************************************************************)
VARIABLES
  \* --- the PocketBase store ---
  categories,     \* set of [id, user_id, name]
  nextCategoryId, \* ids handed out by the store
  mappings,       \* set of [id, user_id, merchant_name, category]
  expenses,       \* sequence of expense rows, in creation order
  status,         \* statement id -> "none" | "processing" | "completed" | "failed"
  \* --- one processPdfExpenses call per statement ---
  pc,             \* where the call stands
  owner,          \* userId argument
  doc,            \* the uploaded document (fileBuffer argument)
  categoryNames,  \* categoryNames local (part_002:182)
  expenseCount,   \* expenseCount local (part_002:173)
  cur,            \* the candidate being converted and inserted
  raised,         \* the call's promise rejected
  \* --- direct callers of getOrCreateCategoryByName ---
  call,           \* per client: the resolution it is in, or its last one
  lastCall,       \* the resolution that finished last
  callsMade,      \* resolutions started so far
  \* --- observation only ---
  faults,         \* environment faults injected so far
  obs             \* per statement: what the run did, for the properties

VARIABLES
  \* --- callers of createCategory ---
  creating        \* per client: the createCategory call it is in, or its last

dbVars == <<categories, nextCategoryId, mappings, expenses, status>>

flowVars == <<pc, owner, doc, categoryNames, expenseCount, cur, raised>>

catVars == <<call, lastCall, callsMade>>

VARIABLES
  \* --- the expenses collection as the viewers see it, and its channel ---
  records,        \* expense id -> stored row, or NoRow
  writes,         \* writes made so far
  transport,      \* the realtime connection: "up" | "down"
  sse,            \* events sent and not yet delivered, in order
  listeners,      \* callbacks the realtime client holds for expenses/"*"
  \* --- one useUploadExpenses and one usePocketbaseExpenses instance ---
  viewer,         \* useUploadExpenses: effect state
  view,           \* useUploadExpenses: the expenses state
  live,           \* usePocketbaseExpenses: effect state
  \* --- observation only ---
  missed          \* ids whose event was lost while the transport was down

VARIABLES
  \* --- the statements collection as useStatementStatus sees it ---
  statementRows,  \* statement id -> [status, updated_at, updated]
  clock,          \* the store's clock
  feed,           \* statement events sent and not yet delivered, in order
  tracker,        \* useStatementStatus: effect and fetch state
  statusList,     \* useStatementStatus: the statements state
  newest          \* per statement: the latest timestamp the list was given

VARIABLES
  \* --- uploadStatement ---
  disableDuplicateDetection, \* process.env.DISABLE_DUPLICATE_DETECTION === "true"
  uploads,        \* per call slot: the call it is in, or its last
  uploadsMade,    \* calls started so far
  statementTable, \* the statements collection: set of [id, user_id, checksum]
  flows           \* statement ids processPdfExpenses was started for

VARIABLES
  \* --- ensureBucketExists / uploadToStorage ---
  bucketReady,    \* let bucketReady
  bucketPromise,  \* let bucketPromise: "null" | "pending" | "resolved" |
                  \* "rejected"
  provision,      \* where the provisioning closure is, or how it ended
  bucket,         \* the storage service has the bucket
  storing,        \* per uploadToStorage call: where it is
  bucketCalls     \* getBucket and createBucket requests sent

VARIABLES
  \* --- extractExpensesFromPdf ---
  schemaCategories, \* userCategories the schema was created with
  elements,         \* array elements the model has produced
  yielded,          \* what the generator has yielded
  extraction        \* "idle" | "streaming" | "threw"

VARIABLES
  \* --- merchant mappings ---
  mapCall,        \* per client: the merchant-mapping call it is in
  nextMappingId   \* ids handed out by the store

capVars == <<creating>>

mapVars == <<mapCall, nextMappingId>>

ladderVars == <<schemaCategories, elements, yielded, extraction>>

bucketVars == <<bucketReady, bucketPromise, provision, bucket, storing,
                bucketCalls>>

moreVars == <<bucketVars, ladderVars, mapVars>>

upVars == <<disableDuplicateDetection, uploads, uploadsMade, statementTable,
            flows>>

statusVars == <<statementRows, clock, feed, tracker, statusList, newest>>

storeVars == <<records, writes, transport, sse, missed>>

viewVars == <<listeners, viewer, view, live>>

\* What the ingestion flow and the category resolution never touch.
auxVars == <<capVars, storeVars, viewVars, statusVars, upVars, moreVars>>

vars == <<categories, nextCategoryId, mappings, expenses, status,
          pc, owner, doc, categoryNames, expenseCount, cur, raised,
          call, lastCall, callsMade, faults, obs, auxVars>>

Terminal == {"completed", "failed"}

NoCandidate ==
  [expense |-> NoItem, amount_sgd |-> 0, line_hash |-> "", category |-> "",
   category_id |-> 0]

NoObs ==
  [ attempts     |-> 0,      \* insert attempts finished
    duplicates   |-> 0,      \* uniqueness violations absorbed
    dropped      |-> 0,      \* other insert failures absorbed
    loopError    |-> FALSE,  \* an exception left the for-await loop
    streamEnded  |-> FALSE,  \* the stream ended without error
    wroteDone    |-> FALSE,  \* updateStatementStatus("completed") was awaited
    fx           |-> << >>,  \* per candidate: did the rate source answer
    after        |-> {} ]    \* statements already terminal when this one started

NoResolution ==
  [user |-> "", name |-> "", id |-> 0, alone |-> FALSE, before |-> 0]

NoCall ==
  [ pc     |-> "idle",        \* "idle" | "read" | "create" | "returned" | "threw"
    user   |-> "",            \* userId argument
    name   |-> "",            \* categoryName argument
    id     |-> 0,             \* the id returned
    tried  |-> FALSE,         \* create was called
    fault  |-> FALSE,         \* an environment fault hit it
    alone  |-> FALSE,         \* no other resolution ran during this one
    before |-> 0,             \* the user's categories when it started
    after  |-> 0,             \* the user's categories when it finished
    prev   |-> NoResolution ] \* the resolution that had finished last

NoMapCall ==
  [ pc       |-> "idle",  \* "idle" | "create" | "find" | "write" |
                          \* "returned" | "threw"
    op       |-> "",      \* "create" | "update" | "delete"
    user     |-> "",      \* userId
    name     |-> "",      \* merchantName
    category |-> "",      \* category / newCategory
    record   |-> 0,       \* record.id the lookup found
    result   |-> FALSE ]  \* the boolean returned

NoRow == Row("", "", "", "", 0)

NoViewer ==
  [ phase       |-> "idle",   \* "idle" | "live" | "torn"
    unsubscribe |-> FALSE,    \* the closure's unsubscribe is set
    subscribe   |-> "none",   \* the subscribe promise: "none" | "pending" | "settled"
    fetch       |-> "none",   \* "none" | "asked" | "answered" | "done" | "failed"
    data        |-> << >> ]   \* rows the fetch read

NoLive ==
  [ phase       |-> "idle",   \* "idle" | "live" | "torn"
    active      |-> FALSE,    \* the closure's active flag
    subscribe   |-> "none",   \* "none" | "pending" | "settled"
    error       |-> FALSE,    \* subscriptionError is set
    events      |-> 0 ]       \* setLastEventAt calls

\* A date field nothing was written to, a timestamp never taken.
NoTimestamp == 0

NoStatementRow == [status |-> "none", updated_at |-> NoTimestamp,
                   updated |-> NoTimestamp]

NoTracker ==
  [ phase |-> "idle",     \* "idle" | "live"
    fetch |-> "none",     \* "none" | "asked" | "answered" | "done" | "failed"
    data  |-> << >> ]     \* records the fetch read

\* UploadResult
NoResult == [success |-> FALSE, message |-> "", statementId |-> 0]

UploadResult(success, message, statementId) ==
  [success |-> success, message |-> message, statementId |-> statementId]

NoUpload ==
  [ pc       |-> "idle",  \* "idle" | "check" | "store" | "create", or how it
                          \* returned: "unauthenticated" | "invalid" |
                          \* "duplicate" | "accepted" | "conflict" | "failed"
    user     |-> "",      \* userId
    checksum |-> "",      \* checksum
    file     |-> NoFile,  \* formData.get("file")
    known    |-> FALSE,   \* the user had a statement of the file's digest
                          \* when the call began
    result   |-> NoResult ]  \* what the call returned

NoCreation ==
  [ pc   |-> "idle",   \* "idle" | "count" | "create" | "returned" | "threw"
    user |-> "",       \* the authenticated user
    name |-> "" ]      \* input.name

Obs(s, field, value) == [obs EXCEPT ![s][field] = value]

CanFault == faults < MaxFaults

(***************************************************************************)
(* Pure helpers of the pipeline                                            *)
(***************************************************************************)
\* createExpenseHash: sha256 of `${date}-${description}-${amount}`.  The
\* digest is taken to be injective on the string it is given.
createExpenseHash(date, description, amount) ==
  date \o "-" \o description \o "-" \o ToString(amount)

\* Mutant: no fallback; a foreign amount is always multiplied by the rate.
convertToSGDWithoutFallback(amount, currency, rateOk) ==
  IF currency = BASE_CURRENCY THEN amount ELSE amount * FxRate

\* convertToSGD(...).convertedAmount: identity for the base currency and,
\* when the rate source does not answer, for a foreign one (rate = 1).
convertToSGD(amount, currency, rateOk) ==
  IF currency = BASE_CURRENCY \/ ~rateOk THEN amount ELSE amount * FxRate

\* The category of a yielded element: the schema keeps a category of the
\* caller's list and turns every other one into "Other".
coerceCategory(item, names) ==
  [item EXCEPT !.category = IF item.category \in names THEN item.category
                            ELSE "Other"]

\* let finalCategory = original_currency !== "SGD" ? "Travel" : category
defaultCategory(expense) ==
  IF expense.original_currency # "SGD" THEN "Travel" ELSE expense.category

\* getMerchantMapping: the rows the filter
\* user_id = userId && merchant_name = merchantName.toUpperCase() selects.
getMerchantMapping(userId, merchantName) ==
  {m \in mappings : m.user_id = userId
                    /\ m.merchant_name = toUpperCase(merchantName)}

\* Mutant: the mapping is applied to base-currency transactions only.
overrideCategoryDomesticOnly(found, finalCategory) ==
  IF found # {} /\ finalCategory # "Travel"
  THEN (CHOOSE m \in found : TRUE).category
  ELSE finalCategory

\* if (merchantMapping) finalCategory = merchantMapping.category
overrideCategory(found, finalCategory) ==
  IF found # {} THEN (CHOOSE m \in found : TRUE).category ELSE finalCategory

\* Mutant: names are compared as written.
findCategoryExact(existingCategories, categoryName) ==
  {c \in existingCategories : c.name = categoryName}

\* existingCategories.find(c => c.name.toLowerCase() === name.toLowerCase())
findCategory(existingCategories, categoryName) ==
  {c \in existingCategories :
     toLowerCase(c.name) = toLowerCase(categoryName)}

userCategories(userId) == {c \in categories : c.user_id = userId}

\* idx_unique_user_category_name ON categories (user_id, lower(name))
categoryNameTaken(userId, name) ==
  \E c \in categories : c.user_id = userId
                        /\ toLowerCase(c.name) = toLowerCase(name)

\* Mutant: the unique index covers line_hash alone.
lineHashTakenByAnyone(userId, lineHash) ==
  \E i \in 1..Len(expenses) : expenses[i].line_hash = lineHash

\* idx_expenses_user_line_hash ON expenses (user_id, line_hash)
lineHashTaken(userId, lineHash) ==
  \E i \in 1..Len(expenses) : expenses[i].user_id = userId
                              /\ expenses[i].line_hash = lineHash

\* expenseInsertDataSchema: the non-empty and typed fields of a record.
validateExpenseInsert(row) ==
  /\ row.statement_id # ""
  /\ row.user_id # ""
  /\ row.category_id # 0
  /\ row.amount_sgd \in Int

\* transformAIInputToInsert plus the category_id the caller adds.
transformAIInputToInsert(c, statementId, userId) ==
  [ statement_id |-> statementId,
    user_id      |-> userId,
    date         |-> c.expense.date,
    description  |-> c.expense.description,
    merchant     |-> c.expense.merchant,
    amount_sgd   |-> c.amount_sgd,
    original_amount   |-> c.expense.original_amount,
    original_currency |-> c.expense.original_currency,
    category     |-> c.category,
    category_id  |-> c.category_id,
    line_hash    |-> c.line_hash ]

(***************************************************************************)
(* Control flow of processPdfExpenses                                      *)
(***************************************************************************)
\* Mutant: the insert is not awaited before the next element is asked for.
loopAsksNextEarly(s) == pc[s] \in {"pull", "insert"}

\* for await (...) { ...; await insertExpenseRecord(...) }: the next element
\* is asked of the stream only when the loop body has run to its end.
loopAsksNext(s) == pc[s] = "pull"

\* Mutant: a uniqueness violation is re-thrown.
afterInsertRethrowsUnique(outcome) ==
  IF outcome = "unique" THEN "catch" ELSE "pull"

\* insertExpenseRecord's try/catch: where the loop goes for each outcome of
\* pb.collection("expenses").create ("created", "unique", "error").
afterInsert(outcome) == "pull"

\* Mutant: something throws inside the try block after the write resolved.
afterCompletedWriteThenThrows(resolved) == "catch"

\* await updateStatementStatus(pb, statementId, "completed") sits inside the
\* try block: the call returns when it resolves, the catch block runs when
\* it rejects.
afterCompletedWrite(resolved) == IF resolved THEN "done" ELSE "catch"

(***************************************************************************)
(* Initial state                                                           *)
(***************************************************************************)
\* Everything but the categories collection and the environment.
InitRest ==
  /\ mappings = { [id |-> 1, user_id |-> "u1", merchant_name |-> "STARBUCKS",
                   category |-> "travel"] }
  /\ expenses = << >>
  /\ status = [s \in Statements |-> "none"]
  /\ pc = [s \in Statements |-> "idle"]
  /\ owner = [s \in Statements |-> "u1"]
  /\ doc = [s \in Statements |-> "empty"]
  /\ categoryNames = [s \in Statements |-> {}]
  /\ expenseCount = [s \in Statements |-> 0]
  /\ cur = [s \in Statements |-> NoCandidate]
  /\ raised = [s \in Statements |-> FALSE]
  /\ call = [c \in Clients |-> NoCall]
  /\ lastCall = NoResolution
  /\ callsMade = 0
  /\ faults = 0
  /\ obs = [s \in Statements |-> NoObs]
  /\ creating = [c \in Clients |-> NoCreation]
  /\ records = [e \in ExpenseIds |-> NoRow]
  /\ writes = 0
  /\ transport = "up"
  /\ sse = << >>
  /\ listeners = {}
  /\ viewer = NoViewer
  /\ view = << >>
  /\ live = NoLive
  /\ missed = {}
  /\ statementRows = [s \in Statements |-> NoStatementRow]
  /\ clock = 1
  /\ feed = << >>
  /\ tracker = NoTracker
  /\ statusList = << >>
  /\ newest = [s \in Statements |-> NoTimestamp]
  /\ uploads = [u \in Uploads |-> NoUpload]
  /\ uploadsMade = 0
  /\ statementTable = {}
  /\ flows = {}
  /\ bucketReady = FALSE
  /\ bucketPromise = "null"
  /\ provision = "idle"
  /\ bucket = FALSE
  /\ storing = [c \in StorageCalls |-> "idle"]
  /\ bucketCalls = [getBucket |-> 0, createBucket |-> 0]
  /\ schemaCategories = {}
  /\ mapCall = [c \in Clients |-> NoMapCall]
  /\ nextMappingId = 2
  /\ elements = << >>
  /\ yielded = << >>
  /\ extraction = "idle"

Init ==
  /\ categories = { [id |-> 1, user_id |-> "u1", name |-> "Dining"],
                    [id |-> 2, user_id |-> "u2", name |-> "Dining"] }
  /\ nextCategoryId = 3
  /\ disableDuplicateDetection = FALSE
  /\ InitRest

(***************************************************************************)
(* Actions: one per await point                                            *)
(***************************************************************************)
\* The exception handlers share this: control moves to the catch block.
Throw(s, inLoop) ==
  /\ pc' = [pc EXCEPT ![s] = "catch"]
  /\ obs' = IF inLoop THEN Obs(s, "loopError", TRUE) ELSE obs

\* uploadStatement: createStatementRecord (status "processing"), then the
\* un-awaited processPdfExpenses(fileBuffer, statementId, userId).
Start(s) ==
  /\ pc[s] = "idle"
  /\ \E u \in Users, d \in DocNames :
       /\ owner' = [owner EXCEPT ![s] = u]
       /\ doc' = [doc EXCEPT ![s] = d]
  /\ status' = [status EXCEPT ![s] = "processing"]
  /\ pc' = [pc EXCEPT ![s] = "fetch"]
  /\ obs' = Obs(s, "after", {t \in Statements : pc[t] = "done"})
  /\ UNCHANGED <<categories, nextCategoryId, mappings, expenses,
                 categoryNames, expenseCount, cur, raised, faults>>
  /\ UNCHANGED <<catVars, auxVars>>

\* const userCategories = await pb.collection("categories").getFullList(...)
FetchCategories(s) ==
  /\ pc[s] = "fetch"
  /\ \/ /\ categoryNames' = [categoryNames EXCEPT ![s] =
                               {c.name : c \in userCategories(owner[s])}]
        /\ pc' = [pc EXCEPT ![s] = "pull"]
        /\ UNCHANGED <<faults, obs>>
     \/ /\ CanFault
        /\ faults' = faults + 1
        /\ Throw(s, FALSE)
        /\ UNCHANGED categoryNames
  /\ UNCHANGED <<dbVars, owner, doc, expenseCount, cur, raised>>
  /\ UNCHANGED <<catVars, auxVars>>

\* One turn of the for-await loop head, up to the first await of the body
\* that reads the store: the stream yields the next element, ends or throws;
\* expenseCount++; convertToSGD; createExpenseHash; the default category.
Pull(s) ==
  /\ loopAsksNext(s)
  /\ LET items == Documents[doc[s]] IN
     \/ /\ expenseCount[s] < Len(items)
        /\ LET expense == coerceCategory(items[expenseCount[s] + 1],
                                         categoryNames[s])
               foreign == expense.original_currency # BASE_CURRENCY
           IN \E rateOk \in (IF foreign THEN BOOLEAN ELSE {TRUE}) :
                LET amountSgd == convertToSGD(expense.original_amount,
                                   expense.original_currency, rateOk)
                IN /\ cur' = [cur EXCEPT ![s] =
                        [ expense     |-> expense,
                          amount_sgd  |-> amountSgd,
                          line_hash   |-> createExpenseHash(expense.date,
                                            expense.description, amountSgd),
                          category    |-> defaultCategory(expense),
                          category_id |-> 0 ]]
                   /\ obs' = Obs(s, "fx", Append(obs[s].fx, rateOk))
                   /\ pc' = [pc EXCEPT ![s] =
                        IF expense.merchant # "" THEN "mapping" ELSE "resolve"]
        /\ expenseCount' = [expenseCount EXCEPT ![s] = @ + 1]
        /\ UNCHANGED faults
     \/ /\ expenseCount[s] = Len(items)
        /\ pc' = [pc EXCEPT ![s] = "post"]
        /\ obs' = Obs(s, "streamEnded", TRUE)
        /\ UNCHANGED <<expenseCount, cur, faults>>
     \/ /\ CanFault
        /\ faults' = faults + 1
        /\ Throw(s, TRUE)
        /\ UNCHANGED <<expenseCount, cur>>
  /\ UNCHANGED <<dbVars, owner, doc, categoryNames, raised>>
  /\ UNCHANGED <<catVars, auxVars>>

\* const merchantMapping = await getMerchantMapping(userId, expense.merchant)
LookupMapping(s) ==
  /\ pc[s] = "mapping"
  /\ \/ /\ cur' = [cur EXCEPT ![s].category =
                     overrideCategory(
                       getMerchantMapping(owner[s], cur[s].expense.merchant),
                       cur[s].category)]
        /\ pc' = [pc EXCEPT ![s] = "resolve"]
        /\ UNCHANGED <<faults, obs>>
     \/ /\ CanFault
        /\ faults' = faults + 1
        /\ Throw(s, TRUE)
        /\ UNCHANGED cur
  /\ UNCHANGED <<dbVars, owner, doc, categoryNames, expenseCount, raised>>
  /\ UNCHANGED <<catVars, auxVars>>

\* getOrCreateCategoryByName, first await: getFullList, then find.
ResolveCategory(s) ==
  /\ pc[s] = "resolve"
  /\ \/ LET match == findCategory(userCategories(owner[s]), cur[s].category)
        IN /\ IF match # {}
              THEN /\ cur' = [cur EXCEPT ![s].category_id =
                                (CHOOSE c \in match : TRUE).id]
                   /\ pc' = [pc EXCEPT ![s] = "insert"]
              ELSE /\ pc' = [pc EXCEPT ![s] = "create"]
                   /\ UNCHANGED cur
           /\ UNCHANGED <<faults, obs>>
     \/ /\ CanFault
        /\ faults' = faults + 1
        /\ Throw(s, TRUE)
        /\ UNCHANGED cur
  /\ UNCHANGED <<dbVars, owner, doc, categoryNames, expenseCount, raised>>
  /\ UNCHANGED <<catVars, auxVars>>

\* getOrCreateCategoryByName, second await: create.  Every rejection, the
\* unique index's included, is re-thrown as "Failed to create category".
CreateCategory(s) ==
  /\ pc[s] = "create"
  /\ IF categoryNameTaken(owner[s], cur[s].category)
     THEN /\ Throw(s, TRUE)
          /\ UNCHANGED <<categories, nextCategoryId, cur, faults>>
     ELSE \/ /\ categories' = categories \cup
                  { [id |-> nextCategoryId, user_id |-> owner[s],
                     name |-> cur[s].category] }
             /\ nextCategoryId' = nextCategoryId + 1
             /\ cur' = [cur EXCEPT ![s].category_id = nextCategoryId]
             /\ pc' = [pc EXCEPT ![s] = "insert"]
             /\ UNCHANGED <<faults, obs>>
          \/ /\ CanFault
             /\ faults' = faults + 1
             /\ Throw(s, TRUE)
             /\ UNCHANGED <<categories, nextCategoryId, cur>>
  /\ UNCHANGED <<mappings, expenses, status, owner, doc, categoryNames,
                 expenseCount, raised>>
  /\ UNCHANGED <<catVars, auxVars>>

\* transformAIInputToInsert, then insertExpenseRecord: validate, create.
InsertExpense(s) ==
  /\ pc[s] = "insert"
  /\ LET row == transformAIInputToInsert(cur[s], s, owner[s]) IN
     IF ~validateExpenseInsert(row)
     THEN /\ Throw(s, TRUE)
          /\ UNCHANGED <<expenses, faults>>
     ELSE IF lineHashTaken(row.user_id, row.line_hash)
     THEN /\ pc' = [pc EXCEPT ![s] = afterInsert("unique")]
          /\ obs' = [obs EXCEPT ![s].attempts = @ + 1,
                                ![s].duplicates = @ + 1,
                                ![s].loopError =
                                   @ \/ afterInsert("unique") = "catch"]
          /\ UNCHANGED <<expenses, faults>>
     ELSE \/ /\ expenses' = Append(expenses, row)
             /\ pc' = [pc EXCEPT ![s] = afterInsert("created")]
             /\ obs' = [obs EXCEPT ![s].attempts = @ + 1]
             /\ UNCHANGED faults
          \/ /\ CanFault
             /\ faults' = faults + 1
             /\ pc' = [pc EXCEPT ![s] = afterInsert("error")]
             /\ obs' = [obs EXCEPT ![s].attempts = @ + 1,
                                   ![s].dropped = @ + 1,
                                   ![s].loopError =
                                      @ \/ afterInsert("error") = "catch"]
             /\ UNCHANGED expenses
  /\ UNCHANGED <<categories, nextCategoryId, mappings, status, owner, doc,
                 categoryNames, expenseCount, cur, raised>>
  /\ UNCHANGED <<catVars, auxVars>>

\* After the loop: throw when nothing was extracted, else
\* await updateStatementStatus(pb, statementId, "completed").
Finish(s) ==
  /\ pc[s] = "post"
  /\ IF expenseCount[s] = 0
     THEN /\ Throw(s, FALSE)
          /\ UNCHANGED <<status, faults>>
     ELSE \/ /\ status' = [status EXCEPT ![s] = "completed"]
             /\ pc' = [pc EXCEPT ![s] = afterCompletedWrite(TRUE)]
             /\ obs' = Obs(s, "wroteDone", TRUE)
             /\ UNCHANGED faults
          \/ /\ CanFault
             /\ faults' = faults + 1
             /\ pc' = [pc EXCEPT ![s] = afterCompletedWrite(FALSE)]
             /\ obs' = Obs(s, "wroteDone", TRUE)
             /\ UNCHANGED status
  /\ UNCHANGED <<categories, nextCategoryId, mappings, expenses, owner, doc,
                 categoryNames, expenseCount, cur, raised>>
  /\ UNCHANGED <<catVars, auxVars>>

\* catch (error) { await updateStatementStatus(pb, statementId, "failed");
\* throw error; }  When the update rejects, its error is what is thrown.
Catch(s) ==
  /\ pc[s] = "catch"
  /\ \/ /\ status' = [status EXCEPT ![s] = "failed"]
        /\ UNCHANGED faults
     \/ /\ CanFault
        /\ faults' = faults + 1
        /\ UNCHANGED status
  /\ pc' = [pc EXCEPT ![s] = "done"]
  /\ raised' = [raised EXCEPT ![s] = TRUE]
  /\ UNCHANGED <<categories, nextCategoryId, mappings, expenses, owner, doc,
                 categoryNames, expenseCount, cur, obs>>
  /\ UNCHANGED <<catVars, auxVars>>

Next ==
  \E s \in Statements :
    \/ Start(s)
    \/ FetchCategories(s)
    \/ Pull(s)
    \/ LookupMapping(s)
    \/ ResolveCategory(s)
    \/ CreateCategory(s)
    \/ InsertExpense(s)
    \/ Finish(s)
    \/ Catch(s)

Spec == Init /\ [][Next]_vars

(***************************************************************************)
(* Properties of the ingestion pipeline                                    *)
(***************************************************************************)
StatementRows(s) == SelectSeq(expenses, LAMBDA r : r.statement_id = s)

Stepped(s) == pc'[s] # pc[s]

\* C1: an insert that hits the (user_id, line_hash) unique index is a
\* successful no-op: the call does not raise, the insert is attempted once,
\* the loop asks the stream for the next candidate, and neither the rows nor
\* the statement's status change.
C1_DuplicateAbsorbed ==
  [][ \A s \in Statements :
        ( /\ pc[s] = "insert"
          /\ lineHashTaken(owner[s], cur[s].line_hash)
          /\ Stepped(s) )
        => /\ pc'[s] = "pull"
           /\ raised'[s] = raised[s]
           /\ obs'[s].loopError = obs[s].loopError
           /\ obs'[s].attempts = obs[s].attempts + 1
           /\ expenseCount'[s] = expenseCount[s]
           /\ expenses' = expenses
           /\ status' = status ]_vars

\* C1 witness: a statement completed although one of its inserts was a
\* duplicate.
C1_Witness ==
  \E s \in Statements : obs[s].duplicates > 0 /\ status[s] = "completed"

C2_NoTwoRows ==
  \A i, j \in 1..Len(expenses) :
     ( /\ expenses[i].user_id = expenses[j].user_id
       /\ \/ expenses[i].line_hash = expenses[j].line_hash
          \/ /\ expenses[i].date = expenses[j].date
             /\ expenses[i].description = expenses[j].description
             /\ expenses[i].amount_sgd = expenses[j].amount_sgd )
     => i = j

C2_OtherUsersRowDoesNotBlock ==
  \A s \in Statements :
     ( /\ pc[s] = "insert"
       /\ Stepped(s)
       /\ faults' = faults
       /\ \A i \in 1..Len(expenses) :
            expenses[i].line_hash = cur[s].line_hash
            => expenses[i].user_id # owner[s] )
     => /\ Len(expenses') = Len(expenses) + 1
        /\ expenses'[Len(expenses')].user_id = owner[s]
        /\ expenses'[Len(expenses')].line_hash = cur[s].line_hash

\* C2: whatever the interleaving of the flows, no two persisted rows share
\* (user_id, line_hash), so a (date, description, amount) line is stored at
\* most once per user; a row of another user with the same hash does not
\* keep a user's insert from being stored.
C2_UniquePerUser == []C2_NoTwoRows /\ [][C2_OtherUsersRowDoesNotBlock]_vars

\* C2 witness: the same line stored once for each of two users, by two
\* flows that ran at the same time.
C2_Witness ==
  \E i, j \in 1..Len(expenses) :
     /\ expenses[i].line_hash = expenses[j].line_hash
     /\ expenses[i].user_id # expenses[j].user_id
     /\ obs[expenses[i].statement_id].after = {}
     /\ obs[expenses[j].statement_id].after = {}

SameDocumentAgain(first, second) ==
  /\ first # second
  /\ first \in obs[second].after
  /\ status[first] = "completed"
  /\ pc[second] = "done"
  /\ owner[first] = owner[second]
  /\ doc[first] = doc[second]
  /\ obs[first].fx = obs[second].fx

\* C3: re-ingesting an identical document for the same user, with the same
\* conversion results, after a first ingestion completed, adds no row.
C3_ReingestAddsNothing ==
  \A first, second \in Statements :
     SameDocumentAgain(first, second) => Len(StatementRows(second)) = 0

\* What C3 rests on: it holds of every first ingestion none of whose
\* inserts was dropped for a reason other than the unique index.
C3_HoldsIfNothingDropped ==
  \A first, second \in Statements :
     (SameDocumentAgain(first, second) /\ obs[first].dropped = 0)
     => Len(StatementRows(second)) = 0

\* C4: when the stream ends without error the final status follows the
\* number of candidates: none, the statement is failed and has no row; one
\* or more, it is completed, and completed is written only after every
\* yielded candidate had its insert attempted.
C4_StatusByCount ==
  \A s \in Statements :
     /\ (pc[s] = "done" /\ obs[s].streamEnded)
        => IF expenseCount[s] = 0
           THEN status[s] = "failed" /\ Len(StatementRows(s)) = 0
           ELSE status[s] = "completed"
     /\ status[s] = "completed"
        => obs[s].streamEnded /\ obs[s].attempts = expenseCount[s]

\* C5: an exception raised while the loop runs leaves the statement failed
\* and the call rejected, and the statement is never completed in that run.
C5_LoopErrorFails ==
  \A s \in Statements :
     obs[s].loopError
     => /\ status[s] # "completed"
        /\ pc[s] = "done" => (status[s] = "failed" /\ raised[s])

C7_EndsTerminal ==
  \A s \in Statements : pc[s] = "done" => status[s] \in Terminal

ItemPosition(s, row) ==
  CHOOSE k \in 1..Len(Documents[doc[s]]) :
     /\ Documents[doc[s]][k].date = row.date
     /\ Documents[doc[s]][k].description = row.description

\* C8: one candidate at a time: a candidate is pulled only when the insert
\* of every earlier one was attempted, and a statement's rows are stored in
\* the order the stream yielded them.
C8_StrictSequence ==
  \A s \in Statements :
     /\ expenseCount[s] - obs[s].attempts \in {0, 1}
     /\ pc[s] \in {"pull", "post"} => obs[s].attempts = expenseCount[s]
     /\ pc[s] \in {"mapping", "resolve", "create", "insert"}
        => obs[s].attempts = expenseCount[s] - 1
     /\ LET rows == StatementRows(s) IN
        \A i, j \in 1..Len(rows) :
           i < j => ItemPosition(s, rows[i]) < ItemPosition(s, rows[j])

\* C8 witness: a statement with two rows stored, in stream order.
C8_Witness ==
  \E s \in Statements :
     /\ Len(StatementRows(s)) = 2
     /\ pc[s] = "pull"
     /\ expenseCount[s] = 2

\* The category the specification prescribes for a candidate of a user.
ReferenceCategory(userId, expense) ==
  LET mapped == {m \in mappings :
                   /\ m.user_id = userId
                   /\ toLowerCase(m.merchant_name)
                        = toLowerCase(expense.merchant)}
  IN IF mapped # {} THEN (CHOOSE m \in mapped : TRUE).category
     ELSE IF expense.original_currency # BASE_CURRENCY THEN "Travel"
     ELSE expense.category

\* C9: the final category is the merchant mapping's when the merchant has
\* one (whatever the letter case, foreign currency or not), else "Travel"
\* for a foreign currency, else the extracted category.
C9_FinalCategory ==
  \A s \in Statements :
     /\ pc[s] \in {"resolve", "create", "insert"}
        => cur[s].category = ReferenceCategory(owner[s], cur[s].expense)
     /\ \A i \in 1..Len(StatementRows(s)) :
          LET row == StatementRows(s)[i]
              item == coerceCategory(
                        Documents[doc[s]][ItemPosition(s, row)],
                        categoryNames[s])
          IN row.category = ReferenceCategory(owner[s], item)

\* C9 witness: a foreign-currency candidate whose merchant, written in
\* another letter case than the mapping, took the mapping's category.
C9_Witness ==
  \E s \in Statements :
     /\ pc[s] = "insert"
     /\ cur[s].expense.original_currency # BASE_CURRENCY
     /\ cur[s].expense.merchant = "starbucks"
     /\ cur[s].category = "travel"

(***************************************************************************)
(* getOrCreateCategoryByName called directly                               *)
(***************************************************************************)
Running(c) == call[c].pc \in {"read", "create"}

\* The call returns `id` or throws (id = 0), leaving `count` categories to
\* its user.
EndResolve(c, how, id, count, tried, fault) ==
  /\ call' = [call EXCEPT ![c].pc = how, ![c].id = id, ![c].after = count,
                          ![c].tried = tried, ![c].fault = fault]
  /\ lastCall' = [user |-> call[c].user, name |-> call[c].name, id |-> id,
                  alone |-> call[c].alone, before |-> call[c].before]

\* getOrCreateCategoryByName(categoryName, userId) is called.
BeginResolve(c) ==
  /\ ~Running(c)
  /\ callsMade < MaxCalls
  /\ \E u \in Users, name \in RequestedNames :
       call' = [d \in Clients |->
                  IF d = c
                  THEN [ pc |-> "read", user |-> u,
                         name |-> name, id |-> 0, tried |-> FALSE,
                         fault |-> FALSE,
                         alone |-> \A e \in Clients \ {c} : ~Running(e),
                         before |-> Cardinality(userCategories(u)),
                         after |-> 0, prev |-> lastCall ]
                  ELSE IF Running(d) THEN [call[d] EXCEPT !.alone = FALSE]
                  ELSE call[d]]
  /\ callsMade' = callsMade + 1
  /\ UNCHANGED <<dbVars, flowVars, lastCall, faults, obs, auxVars>>

\* First await: getFullList, then find; a match is returned.
ReadCategories(c) ==
  /\ call[c].pc = "read"
  /\ LET mine == userCategories(call[c].user) IN
     \/ LET match == findCategory(mine, call[c].name) IN
        /\ IF match # {}
           THEN EndResolve(c, "returned", (CHOOSE m \in match : TRUE).id,
                           Cardinality(mine), FALSE, FALSE)
           ELSE /\ call' = [call EXCEPT ![c].pc = "create"]
                /\ UNCHANGED lastCall
        /\ UNCHANGED faults
     \/ /\ CanFault
        /\ faults' = faults + 1
        /\ EndResolve(c, "threw", 0, Cardinality(mine), FALSE, TRUE)
  /\ UNCHANGED <<dbVars, flowVars, callsMade, obs, auxVars>>

\* Second await: create; a rejection is re-thrown.
CreateMissing(c) ==
  /\ call[c].pc = "create"
  /\ LET mine == userCategories(call[c].user) IN
     IF categoryNameTaken(call[c].user, call[c].name)
     THEN /\ EndResolve(c, "threw", 0, Cardinality(mine), TRUE, FALSE)
          /\ UNCHANGED <<categories, nextCategoryId, faults>>
     ELSE \/ /\ categories' = categories \cup
                  { [id |-> nextCategoryId, user_id |-> call[c].user,
                     name |-> call[c].name] }
             /\ nextCategoryId' = nextCategoryId + 1
             /\ EndResolve(c, "returned", nextCategoryId,
                           Cardinality(mine) + 1, TRUE, FALSE)
             /\ UNCHANGED faults
          \/ /\ CanFault
             /\ faults' = faults + 1
             /\ EndResolve(c, "threw", 0, Cardinality(mine), TRUE, TRUE)
             /\ UNCHANGED <<categories, nextCategoryId>>
  /\ UNCHANGED <<mappings, expenses, status, flowVars, callsMade, obs,
                 auxVars>>

NextCat ==
  \E c \in Clients :
    \/ BeginResolve(c)
    \/ ReadCategories(c)
    \/ CreateMissing(c)

SpecCat == Init /\ [][NextCat]_vars

\* A finished call that ran right after another finished call for the same
\* user and a name equal up to letter case, nothing else running meanwhile.
ResolvedAgain(k) ==
  /\ k.pc \in {"returned", "threw"}
  /\ k.alone
  /\ k.prev.alone
  /\ k.prev.id # 0
  /\ k.prev.user = k.user
  /\ toLowerCase(k.prev.name) = toLowerCase(k.name)

\* C10: resolving, one call after the other, two names that differ at most
\* in letter case returns the same category id both times and creates at
\* most one category.
C10_CaseInsensitiveIdempotent ==
  \A c \in Clients :
     ResolvedAgain(call[c])
     => /\ ~call[c].tried
        /\ call[c].pc = "threw" => call[c].fault
        /\ call[c].pc = "returned" => call[c].id = call[c].prev.id
        /\ call[c].after <= call[c].prev.before + 1

\* C10 witness: "Travel" was created by one call and found again under
\* another letter case by the next.
C10_Witness ==
  \E c \in Clients :
     /\ ResolvedAgain(call[c])
     /\ call[c].pc = "returned"
     /\ call[c].name # call[c].prev.name
     /\ call[c].after = call[c].prev.before + 1
     /\ call[c].id = call[c].prev.id

\* C11: when two calls race to create the same category name for one user,
\* the call whose create is rejected by the unique index does not throw: it
\* returns the id of the one surviving category with that name.
C11_LosingCreateIgnored ==
  \A c \in Clients :
     (call[c].pc \in {"returned", "threw"} /\ call[c].tried /\ ~call[c].fault)
     => /\ call[c].pc = "returned"
        /\ \E k \in userCategories(call[c].user) :
              /\ toLowerCase(k.name) = toLowerCase(call[c].name)
              /\ k.id = call[c].id

(***************************************************************************)
(* createCategory, next to getOrCreateCategoryByName                       *)
(***************************************************************************)
Creating(c) == creating[c].pc \in {"count", "create"}

\* if (countResult.totalItems >= MAX_CATEGORIES_PER_USER) throw
capReached(totalItems) == totalItems >= MAX_CATEGORIES_PER_USER

\* createCategory(input) is called by an authenticated user.
BeginCreate(c) ==
  /\ ~Creating(c)
  /\ callsMade < MaxCalls
  /\ \E u \in Users, name \in CreatedNames :
       creating' = [creating EXCEPT ![c] =
                      [pc |-> "count", user |-> u, name |-> name]]
  /\ callsMade' = callsMade + 1
  /\ UNCHANGED <<dbVars, flowVars, call, lastCall, faults, obs>>
  /\ UNCHANGED <<storeVars, viewVars, statusVars, upVars, moreVars>>

\* First await: getList(1, 1, filter user_id), then the cap check.
CountCategories(c) ==
  /\ creating[c].pc = "count"
  /\ \/ /\ creating' = [creating EXCEPT ![c].pc =
                          IF capReached(Cardinality(
                                          userCategories(creating[c].user)))
                          THEN "threw" ELSE "create"]
        /\ UNCHANGED faults
     \/ /\ CanFault
        /\ faults' = faults + 1
        /\ creating' = [creating EXCEPT ![c].pc = "threw"]
  /\ UNCHANGED <<dbVars, flowVars, catVars, obs, storeVars, viewVars,
                 statusVars, upVars, moreVars>>

\* Second await: create; the unique index's rejection is re-thrown as
\* "Category with this name already exists".
CreateNew(c) ==
  /\ creating[c].pc = "create"
  /\ IF categoryNameTaken(creating[c].user, creating[c].name)
     THEN /\ creating' = [creating EXCEPT ![c].pc = "threw"]
          /\ UNCHANGED <<categories, nextCategoryId, faults>>
     ELSE \/ /\ categories' = categories \cup
                  { [id |-> nextCategoryId, user_id |-> creating[c].user,
                     name |-> creating[c].name] }
             /\ nextCategoryId' = nextCategoryId + 1
             /\ creating' = [creating EXCEPT ![c].pc = "returned"]
             /\ UNCHANGED faults
          \/ /\ CanFault
             /\ faults' = faults + 1
             /\ creating' = [creating EXCEPT ![c].pc = "threw"]
             /\ UNCHANGED <<categories, nextCategoryId>>
  /\ UNCHANGED <<mappings, expenses, status, flowVars, catVars, obs,
                 storeVars, viewVars, statusVars, upVars, moreVars>>

\* User u1 already has two categories fewer than the cap allows.
InitCap ==
  /\ categories =
       { [id |-> 1, user_id |-> "u1", name |-> "Dining"],
         [id |-> 2, user_id |-> "u2", name |-> "Dining"] }
       \cup { [id |-> 2 + i, user_id |-> "u1", name |-> ToString(i)] :
                i \in 1..(MAX_CATEGORIES_PER_USER - 2) }
  /\ nextCategoryId = MAX_CATEGORIES_PER_USER + 1
  /\ disableDuplicateDetection = FALSE
  /\ InitRest

NextCap ==
  \E c \in Clients :
    \/ BeginResolve(c)
    \/ ReadCategories(c)
    \/ CreateMissing(c)
    \/ BeginCreate(c)
    \/ CountCategories(c)
    \/ CreateNew(c)

SpecCap == InitCap /\ [][NextCap]_vars

\* C12: no user ever has more than MAX_CATEGORIES_PER_USER categories,
\* whatever createCategory calls and get-or-create resolutions ran.
C12_CapHolds ==
  \A u \in Users : Cardinality(userCategories(u)) <= MAX_CATEGORIES_PER_USER

\* C13: every stored expense's category name is the current name of the
\* category its category_id refers to.
C13_DenormalizedNameCurrent ==
  \A i \in 1..Len(expenses) :
     \A k \in categories :
        k.id = expenses[i].category_id => expenses[i].category = k.name

(***************************************************************************)
(* The viewers of the expenses collection: display-transformers,           *)
(* useUploadExpenses, usePocketbaseExpenses                                *)
(***************************************************************************)
\* transformDatabaseToDisplay: a field is copied only if its guard lets it;
\* the fixture rows all have a date, a merchant string and an amount.
transformDatabaseToDisplay(dbExpense, isDuplicate) ==
  LET result == [id |-> dbExpense.id, isDuplicate |-> isDuplicate,
                 date |-> normalizeDateString(dbExpense.date),
                 merchant |-> dbExpense.merchant,
                 amount |-> dbExpense.amount_sgd]
  IN IF dbExpense.description # ""
     THEN [description |-> dbExpense.description] @@ result
     ELSE result

\* `${expense.date}-${normalizedMerchant}-${expense.amount}`
combination(expense) ==
  expense.date \o "-" \o trim(toLowerCase(expense.merchant)) \o "-"
  \o ToString(expense.amount)

recalculateDuplicates(list) ==
  [i \in 1..Len(list) |->
     [list[i] EXCEPT !.isDuplicate =
        \E j \in 1..(i - 1) : combination(list[j]) = combination(list[i])]]

\* { ...exp, ...updatedExpense }
spread(exp, updatedExpense) ==
  [f \in DOMAIN exp \cup DOMAIN updatedExpense |->
     IF f \in DOMAIN updatedExpense THEN updatedExpense[f] ELSE exp[f]]

updateExpenseInArray(list, updatedExpense) ==
  recalculateDuplicates(
    [i \in 1..Len(list) |->
       IF list[i].id = updatedExpense.id
       THEN spread(list[i], updatedExpense) ELSE list[i]])

addExpenseToArray(list, newExpense) ==
  recalculateDuplicates(<<newExpense>> \o list)

removeExpenseFromArray(list, expenseId) ==
  recalculateDuplicates(SelectSeq(list, LAMBDA e : e.id # expenseId))

\* A stored row as the store returns it, with its id.
Record(id) == [id |-> id] @@ records[id]

Stored == {id \in ExpenseIds : records[id] # NoRow}

\* getFullList({filter: statement_id = ..., sort: "-date"}); rows of one
\* date come in id order.
RECURSIVE SortByDateDesc(_)
SortByDateDesc(ids) ==
  IF ids = {} THEN << >>
  ELSE LET first == CHOOSE a \in ids : \A b \in ids \ {a} :
                      \/ DateRank(records[a].date) > DateRank(records[b].date)
                      \/ /\ DateRank(records[a].date) = DateRank(records[b].date)
                         /\ IdRank(a) < IdRank(b)
       IN <<Record(first)>> \o SortByDateDesc(ids \ {first})

Tracked == {id \in Stored : records[id].statement_id \in TrackedStatements}

\* The subscribe callback of useUploadExpenses.
onExpenseEvent(list, event) ==
  IF event.record.statement_id \notin TrackedStatements THEN list
  ELSE IF event.action = "create"
       THEN addExpenseToArray(list,
                              transformDatabaseToDisplay(event.record, FALSE))
  ELSE IF event.action = "update"
       THEN updateExpenseInArray(list,
                                 transformDatabaseToDisplay(event.record, FALSE))
  ELSE removeExpenseFromArray(list, event.record.id)

\* Mutant: the cleanup only ever calls the handler subscribe resolved with.
listenersAfterCleanupHandlerOnly(unsubscribe, held) ==
  IF unsubscribe THEN held \ {"upload"} ELSE held

\* The cleanup of useUploadExpenses: the handler drops its own callback,
\* collection.unsubscribe("*") drops every callback of the topic.
listenersAfterCleanup(unsubscribe, held) ==
  IF unsubscribe THEN held \ {"upload"} ELSE {}

\* What no viewer action touches.
restVars == <<dbVars, flowVars, catVars, capVars, statusVars, upVars,
             moreVars, obs>>

\* The store announces a write on the realtime channel; what is sent while
\* the transport is down, or to a client that holds no callback, is lost.
Announce(action, record) ==
  /\ sse' = IF transport = "up" /\ listeners # {}
            THEN Append(sse, [action |-> action, record |-> record])
            ELSE sse
  /\ missed' = IF transport = "down" /\ "upload" \in listeners
               THEN missed \cup {record.id}
               ELSE missed
  /\ writes' = writes + 1

\* pb.collection("expenses").create by any writer.
CreateRecord(id) ==
  /\ writes < MaxWrites
  /\ records[id] = NoRow
  /\ \E row \in Rows :
       /\ records' = [records EXCEPT ![id] = row]
       /\ Announce("create", [id |-> id] @@ row)
  /\ UNCHANGED <<transport, viewVars, restVars, faults>>

\* pb.collection("expenses").update, as updateExpense makes it.
UpdateRecord(id) ==
  /\ writes < MaxWrites
  /\ records[id] # NoRow
  /\ \E row \in Rows \ {records[id]} :
       /\ row.statement_id = records[id].statement_id
       /\ records' = [records EXCEPT ![id] = row]
       /\ Announce("update", [id |-> id] @@ row)
  /\ UNCHANGED <<transport, viewVars, restVars, faults>>

\* pb.collection("expenses").delete, as deleteCategory makes it.
DeleteRecord(id) ==
  /\ writes < MaxWrites
  /\ records[id] # NoRow
  /\ records' = [records EXCEPT ![id] = NoRow]
  /\ Announce("delete", Record(id))
  /\ UNCHANGED <<transport, viewVars, restVars, faults>>

\* The realtime connection drops; what was on its way is lost.
Disconnect ==
  /\ transport = "up"
  /\ CanFault
  /\ faults' = faults + 1
  /\ transport' = "down"
  /\ sse' = << >>
  /\ missed' = IF "upload" \in listeners
               THEN missed \cup {sse[i].record.id : i \in 1..Len(sse)}
               ELSE missed
  /\ UNCHANGED <<records, writes, viewVars, restVars>>

\* The realtime client connects again and submits its subscriptions anew;
\* neither hook has code that runs then.
Reconnect ==
  /\ transport = "down"
  /\ transport' = "up"
  /\ UNCHANGED <<records, writes, sse, missed, viewVars, restVars, faults>>

\* The next event reaches the client, which calls every callback it holds.
Deliver ==
  /\ sse # << >>
  /\ sse' = Tail(sse)
  /\ view' = IF "upload" \in listeners
             THEN onExpenseEvent(view, Head(sse)) ELSE view
  /\ live' = IF "live" \in listeners /\ live.active
             THEN [live EXCEPT !.events = @ + 1] ELSE live
  /\ UNCHANGED <<records, writes, transport, missed, listeners, viewer,
                 restVars, faults>>

\* useUploadExpenses, second effect: setExpenses([]), the un-awaited fetch,
\* subscribe("*", callback); the client holds the callback from the call on.
Mount ==
  /\ viewer.phase = "idle"
  /\ viewer' = [viewer EXCEPT !.phase = "live", !.fetch = "asked",
                              !.subscribe = "pending"]
  /\ view' = << >>
  /\ listeners' = listeners \cup {"upload"}
  /\ UNCHANGED <<storeVars, live, restVars, faults>>

\* fetchExistingExpenses: getFullList answers, or rejects into the catch.
FetchRead ==
  /\ viewer.fetch = "asked"
  /\ \/ /\ viewer' = [viewer EXCEPT !.fetch = "answered",
                                    !.data = SortByDateDesc(Tracked)]
        /\ UNCHANGED faults
     \/ /\ CanFault
        /\ faults' = faults + 1
        /\ viewer' = [viewer EXCEPT !.fetch = "failed"]
  /\ UNCHANGED <<storeVars, listeners, view, live, restVars>>

\* fetchExistingExpenses after the await: a non-empty answer replaces the
\* list.  A state update of an unmounted component is dropped.
FetchApply ==
  /\ viewer.fetch = "answered"
  /\ viewer' = [viewer EXCEPT !.fetch = "done", !.data = << >>]
  /\ view' = IF viewer.phase = "live" /\ Len(viewer.data) > 0
             THEN [i \in 1..Len(viewer.data) |->
                     transformDatabaseToDisplay(viewer.data[i], FALSE)]
             ELSE view
  /\ UNCHANGED <<storeVars, listeners, live, restVars, faults>>

\* The subscribe promise settles: .then sets unsubscribe, .catch logs.
SubscribeSettled ==
  /\ viewer.subscribe = "pending"
  /\ \/ /\ viewer' = [viewer EXCEPT !.subscribe = "settled",
                                    !.unsubscribe = TRUE]
        /\ UNCHANGED faults
     \/ /\ CanFault
        /\ faults' = faults + 1
        /\ viewer' = [viewer EXCEPT !.subscribe = "settled"]
  /\ UNCHANGED <<storeVars, listeners, view, live, restVars>>

\* The effect's cleanup, on unmount.
Teardown ==
  /\ viewer.phase = "live"
  /\ viewer' = [viewer EXCEPT !.phase = "torn"]
  /\ listeners' = listenersAfterCleanup(viewer.unsubscribe, listeners)
  /\ UNCHANGED <<storeVars, view, live, restVars, faults>>

\* usePocketbaseExpenses, third effect: active = true, subscribe().
MountLive ==
  /\ live.phase = "idle"
  /\ live' = [live EXCEPT !.phase = "live", !.active = TRUE,
                          !.subscribe = "pending"]
  /\ listeners' = listeners \cup {"live"}
  /\ UNCHANGED <<storeVars, viewer, view, restVars, faults>>

\* await subscribe(...) returns, or throws into the catch, which returns
\* at once if the effect is no longer active.
LiveSettled ==
  /\ live.subscribe = "pending"
  /\ \/ /\ live' = [live EXCEPT !.subscribe = "settled"]
        /\ UNCHANGED faults
     \/ /\ CanFault
        /\ faults' = faults + 1
        /\ live' = [live EXCEPT !.subscribe = "settled", !.error = live.active]
  /\ UNCHANGED <<storeVars, listeners, viewer, view, restVars>>

\* Its cleanup: active = false, collection.unsubscribe("*").
TeardownLive ==
  /\ live.phase = "live"
  /\ live' = [live EXCEPT !.phase = "torn", !.active = FALSE]
  /\ listeners' = {}
  /\ UNCHANGED <<storeVars, viewer, view, restVars, faults>>

\* One useUploadExpenses instance on a transport that can drop.
NextView ==
  \/ \E id \in ExpenseIds : CreateRecord(id) \/ UpdateRecord(id)
                            \/ DeleteRecord(id)
  \/ Disconnect
  \/ Reconnect
  \/ Deliver
  \/ Mount
  \/ FetchRead
  \/ FetchApply
  \/ SubscribeSettled
  \/ Teardown

SpecView == Init /\ [][NextView]_vars

\* Both hooks on one realtime client, mounted and unmounted at any time;
\* the answer to the fetch, which reaches no callback, stays outstanding.
NextLife ==
  \/ \E id \in ExpenseIds : CreateRecord(id) \/ UpdateRecord(id)
                            \/ DeleteRecord(id)
  \/ Deliver
  \/ Mount
  \/ SubscribeSettled
  \/ Teardown
  \/ MountLive
  \/ LiveSettled
  \/ TeardownLive

SpecLife == Init /\ [][NextLife]_vars

\* A step in which the client hands the next event to its callbacks.
Delivers == sse # << >> /\ sse' = Tail(sse) /\ transport' = transport

\* The step hands `action` for a tracked statement to useUploadExpenses.
Applies(action) ==
  /\ Delivers
  /\ "upload" \in listeners
  /\ Head(sse).action = action
  /\ Head(sse).record.statement_id \in TrackedStatements

\* What the list shows in a field an entry may lack.
Shown(entry, f) == IF f \in DOMAIN entry THEN entry[f] ELSE ""

SameTriple(a, b) ==
  /\ a.date = b.date
  /\ trim(toLowerCase(a.merchant)) = trim(toLowerCase(b.merchant))
  /\ a.amount = b.amount

\* C14: the viewer's list never holds two entries with the same id,
\* whatever create events are applied to it.
C14_OneEntryPerId ==
  \A i, j \in 1..Len(view) : view[i].id = view[j].id => i = j

\* C15: an update event leaves the list's length and order as they were,
\* leaves the entries of other ids as they were but for the duplicate flag,
\* gives the entry of its id the record's values, and applied once more
\* changes nothing.
C15_UpdateMerges ==
  [][Applies("update") =>
       LET r == Head(sse).record IN
       /\ Len(view') = Len(view)
       /\ \A i \in 1..Len(view) :
            /\ view'[i].id = view[i].id
            /\ view[i].id # r.id =>
                 [view'[i] EXCEPT !.isDuplicate = FALSE]
                 = [view[i] EXCEPT !.isDuplicate = FALSE]
            /\ view[i].id = r.id =>
                 /\ view'[i].date = normalizeDateString(r.date)
                 /\ view'[i].merchant = r.merchant
                 /\ view'[i].amount = r.amount_sgd
                 /\ Shown(view'[i], "description") = r.description
       /\ onExpenseEvent(view', Head(sse)) = view']_vars

\* C16: an entry of the list is flagged duplicate exactly when an earlier
\* entry has its date, lowercased and trimmed merchant, and amount.
C16_FlagsFollowOrder ==
  \A i \in 1..Len(view) :
     view[i].isDuplicate <=> \E j \in 1..(i - 1) : SameTriple(view[j], view[i])

\* C17: once the transport is up again and nothing is outstanding, the
\* list holds every tracked record, and no other, among those whose event
\* was lost while the transport was down.
C17_ReconnectRestores ==
  ( /\ transport = "up"
    /\ sse = << >>
    /\ viewer.phase = "live"
    /\ viewer.fetch = "done"
    /\ "upload" \in listeners )
  => \A id \in missed :
        id \in Tracked <=> \E i \in 1..Len(view) : view[i].id = id

C19_NoCallbackLeft ==
  /\ viewer.phase = "torn" => "upload" \notin listeners
  /\ live.phase = "torn" => "live" \notin listeners

\* The hooks' state: expenses; lastEventAt and subscriptionError.
C19_NoLateMutation ==
  /\ viewer.phase = "torn" => view' = view
  /\ live.phase = "torn" => /\ live'.events = live.events
                            /\ live'.error = live.error

StatementRank(id) == IF id = "s1" THEN 1 ELSE 2

\* A statement record as the store returns it.
StatementRecord(id) == [id |-> id] @@ statementRows[id]

\* updated_at: record.updated_at ?? record.updated ?? new Date()
toStatusDisplay(record, now) ==
  [ id |-> record.id,
    status |-> record.status,
    updatedAt |-> IF record.updated_at # NoTimestamp THEN record.updated_at
                  ELSE IF record.updated # NoTimestamp THEN record.updated
                  ELSE now ]

\* A sort by a descending field: stable, as Array.prototype.sort is.
RECURSIVE SortDesc(_, _)
SortDesc(list, key) ==
  IF list = << >> THEN << >>
  ELSE LET top == CHOOSE i \in 1..Len(list) :
                    /\ \A j \in 1..Len(list) : list[j][key] <= list[i][key]
                    /\ \A j \in 1..(i - 1) : list[j][key] < list[i][key]
       IN <<list[top]>>
          \o SortDesc([i \in 1..(Len(list) - 1) |->
                         IF i < top THEN list[i] ELSE list[i + 1]], key)

RECURSIVE InIdOrder(_)
InIdOrder(ids) ==
  IF ids = {} THEN << >>
  ELSE LET first == CHOOSE a \in ids :
                      \A b \in ids : StatementRank(a) <= StatementRank(b)
       IN <<StatementRecord(first)>> \o InIdOrder(ids \ {first})

\* getFullList({ sort: "-updated_at" }) of the user's statements.
ListStatements ==
  SortDesc(InIdOrder({s \in Statements : statementRows[s].status # "none"}),
           "updated_at")

\* The subscribe callback of useStatementStatus.
onStatementEvent(prev, event, now) ==
  IF event.action = "delete"
  THEN SelectSeq(prev, LAMBDA item : item.id # event.record.id)
  ELSE LET next == toStatusDisplay(event.record, now)
           updated == SelectSeq(prev, LAMBDA item : item.id # next.id)
       IN SortDesc(<<next>> \o updated, "updatedAt")

\* The timestamps a list carries, folded into what was seen so far.
Seen(seen, list) ==
  [s \in Statements |->
     IF \E i \in 1..Len(list) : list[i].id = s /\ list[i].updatedAt > seen[s]
     THEN list[CHOOSE i \in 1..Len(list) :
                 list[i].id = s /\ list[i].updatedAt > seen[s]].updatedAt
     ELSE seen[s]]

\* A write to the statements collection: the store stamps `updated` and
\* announces the record to the subscribed client.
WriteStatement(s, action, newStatus) ==
  /\ statementRows' = [statementRows EXCEPT ![s].status = newStatus,
                                            ![s].updated = clock]
  /\ clock' = clock + 1
  /\ feed' = IF tracker.phase = "live"
             THEN Append(feed, [action |-> action,
                                record |-> [id |-> s, status |-> newStatus,
                                            updated_at |-> NoTimestamp,
                                            updated |-> clock]])
             ELSE feed
  /\ UNCHANGED <<tracker, statusList, newest>>

\* createStatementRecord: create with status "processing".
StatementCreated(s) ==
  /\ statementRows[s].status = "none"
  /\ WriteStatement(s, "create", "processing")
  /\ UNCHANGED <<dbVars, flowVars, catVars, capVars, storeVars, viewVars,
                 upVars, moreVars, faults, obs>>

\* updateStatementStatus: update with { status }.
StatementUpdated(s) ==
  /\ statementRows[s].status = "processing"
  /\ \E newStatus \in Terminal : WriteStatement(s, "update", newStatus)
  /\ UNCHANGED <<dbVars, flowVars, catVars, capVars, storeVars, viewVars,
                 upVars, moreVars, faults, obs>>

\* The effect: void fetchStatements(), subscribe("*", callback).
MountStatus ==
  /\ tracker.phase = "idle"
  /\ tracker' = [tracker EXCEPT !.phase = "live", !.fetch = "asked"]
  /\ UNCHANGED <<statementRows, clock, feed, statusList, newest>>
  /\ UNCHANGED <<dbVars, flowVars, catVars, capVars, storeVars, viewVars,
                 upVars, moreVars, faults, obs>>

\* refetch(), once the previous fetch is over.
Refetch ==
  /\ tracker.phase = "live"
  /\ tracker.fetch \in {"done", "failed"}
  /\ tracker' = [tracker EXCEPT !.fetch = "asked"]
  /\ UNCHANGED <<statementRows, clock, feed, statusList, newest>>
  /\ UNCHANGED <<dbVars, flowVars, catVars, capVars, storeVars, viewVars,
                 upVars, moreVars, faults, obs>>

\* fetchStatements: getFullList answers, or rejects into the catch.
StatusFetchRead ==
  /\ tracker.fetch = "asked"
  /\ \/ /\ tracker' = [tracker EXCEPT !.fetch = "answered",
                                      !.data = ListStatements]
        /\ UNCHANGED faults
     \/ /\ CanFault
        /\ faults' = faults + 1
        /\ tracker' = [tracker EXCEPT !.fetch = "failed"]
  /\ UNCHANGED <<statementRows, clock, feed, statusList, newest>>
  /\ UNCHANGED <<dbVars, flowVars, catVars, capVars, storeVars, viewVars,
                 upVars, moreVars, obs>>

\* fetchStatements after the await: setStatements(records.map(...)).
StatusFetchApply ==
  /\ tracker.fetch = "answered"
  /\ tracker' = [tracker EXCEPT !.fetch = "done", !.data = << >>]
  /\ statusList' = [i \in 1..Len(tracker.data) |->
                      toStatusDisplay(tracker.data[i], clock)]
  /\ newest' = Seen(newest, statusList')
  /\ UNCHANGED <<statementRows, clock, feed>>
  /\ UNCHANGED <<dbVars, flowVars, catVars, capVars, storeVars, viewVars,
                 upVars, moreVars, faults, obs>>

\* The next statement event reaches the callback.
StatusDeliver ==
  /\ feed # << >>
  /\ feed' = Tail(feed)
  /\ statusList' = onStatementEvent(statusList, Head(feed), clock)
  /\ newest' = Seen(newest, statusList')
  /\ UNCHANGED <<statementRows, clock, tracker>>
  /\ UNCHANGED <<dbVars, flowVars, catVars, capVars, storeVars, viewVars,
                 upVars, moreVars, faults, obs>>

NextStatus ==
  \/ \E s \in Statements : StatementCreated(s) \/ StatementUpdated(s)
  \/ MountStatus
  \/ Refetch
  \/ StatusFetchRead
  \/ StatusFetchApply
  \/ StatusDeliver

SpecStatus == Init /\ [][NextStatus]_vars

\* C18: the list has one entry per statement id, and that entry is the one
\* with the latest timestamp among those the list was given for the id,
\* in whatever order they arrived.
C18_LatestTimestampWins ==
  /\ \A i, j \in 1..Len(statusList) :
        statusList[i].id = statusList[j].id => i = j
  /\ \A i \in 1..Len(statusList) :
        statusList[i].updatedAt = newest[statusList[i].id]

(***************************************************************************)
(* uploadStatement                                                         *)
(***************************************************************************)
Uploading(u) == uploads[u].pc \in {"check", "store", "create"}

\* checkDuplicateStatement: getList(1, 1, user_id && checksum).totalItems > 0
checkDuplicateStatement(userId, checksum) ==
  \E st \in statementTable : st.user_id = userId /\ st.checksum = checksum

\* Mutant: the statements collection has no unique index.
checksumTakenNowhere(userId, checksum) == FALSE

\* idx_statements_user_checksum ON statements (user_id, checksum)
checksumTaken(userId, checksum) ==
  \E st \in statementTable : st.user_id = userId /\ st.checksum = checksum

\* Two Math.random() strings: a value no other call has.
randomChecksum == "random-" \o ToString(uploadsMade)

otherVars == <<dbVars, flowVars, catVars, capVars, storeVars, viewVars,
               statusVars, moreVars, obs>>

\* validateUploadedFile(formData); readOk: file.arrayBuffer() resolved.
validateUploadedFileAcceptsAll(file, readOk) ==
  [isValid |-> TRUE, error |-> "", checksum |-> file.digest]

validateUploadedFile(file, readOk) ==
  IF file = NoFile \/ file.size = 0
  THEN [isValid |-> FALSE, error |-> "No file provided.", checksum |-> ""]
  ELSE IF file.type # "application/pdf"
  THEN [isValid |-> FALSE, error |-> "Only PDF files are supported.",
        checksum |-> ""]
  ELSE IF file.size > MAX_FILE_SIZE
  THEN [isValid |-> FALSE, error |-> "File size exceeds 10MB limit.",
        checksum |-> ""]
  ELSE IF ~readOk
  THEN [isValid |-> FALSE, error |-> "Failed to process file.",
        checksum |-> ""]
  ELSE [isValid |-> TRUE, error |-> "", checksum |-> file.digest]

Returned(u, how, success, message, statementId) ==
  [uploads[u] EXCEPT !.pc = how,
                     !.result = UploadResult(success, message, statementId)]

\* uploadStatement(formData): getPocketbaseServerAuth, validateUploadedFile,
\* the checksum used.
BeginUpload(u) ==
  /\ ~Uploading(u)
  /\ uploadsMade < MaxUploads
  /\ uploadsMade' = uploadsMade + 1
  /\ \E userId \in Users \cup {NoUserId}, file \in Files,
        readOk \in BOOLEAN :
       LET validation == validateUploadedFile(file, readOk)
           request == [NoUpload EXCEPT
                      !.user = userId, !.file = file,
                      !.known = checkDuplicateStatement(userId, file.digest)]
       IN uploads' = [uploads EXCEPT ![u] =
            IF userId = NoUserId
            THEN [request EXCEPT !.pc = "unauthenticated",
                    !.result = UploadResult(FALSE, "Not authenticated", 0)]
            ELSE IF ~validation.isValid
            THEN [request EXCEPT !.pc = "invalid",
                    !.result = UploadResult(FALSE,
                      IF validation.error # "" THEN validation.error
                      ELSE "File validation failed", 0)]
            ELSE IF validation.checksum = ""
            THEN [request EXCEPT !.pc = "invalid",
                    !.result = UploadResult(FALSE,
                                            "Failed to process file", 0)]
            ELSE [request EXCEPT
                    !.pc = IF disableDuplicateDetection
                           THEN "store" ELSE "check",
                    !.checksum = IF disableDuplicateDetection
                                 THEN randomChecksum
                                 ELSE validation.checksum]]
  /\ UNCHANGED <<disableDuplicateDetection, statementTable, flows, otherVars,
                 faults>>

\* await checkDuplicateStatement(userId, checksum)
CheckDuplicate(u) ==
  /\ uploads[u].pc = "check"
  /\ \/ /\ uploads' = [uploads EXCEPT ![u] =
             IF checkDuplicateStatement(uploads[u].user, uploads[u].checksum)
             THEN Returned(u, "duplicate", FALSE, "Duplicate", 0)
             ELSE [uploads[u] EXCEPT !.pc = "store"]]
        /\ UNCHANGED faults
     \/ /\ CanFault
        /\ faults' = faults + 1
        /\ uploads' = [uploads EXCEPT ![u] =
             Returned(u, "failed", FALSE, "Upload failed", 0)]
  /\ UNCHANGED <<disableDuplicateDetection, uploadsMade, statementTable,
                 flows, otherVars>>

\* await uploadToStorage(file, userId); the stored file is not tracked.
UploadToStorage(u) ==
  /\ uploads[u].pc = "store"
  /\ \/ /\ uploads' = [uploads EXCEPT ![u].pc = "create"]
        /\ UNCHANGED faults
     \/ /\ CanFault
        /\ faults' = faults + 1
        /\ uploads' = [uploads EXCEPT ![u] =
             Returned(u, "failed", FALSE, "Upload failed", 0)]
  /\ UNCHANGED <<disableDuplicateDetection, uploadsMade, statementTable,
                 flows, otherVars>>

\* await createStatementRecord(...), then the un-awaited processPdfExpenses;
\* a rejected create, the unique index's included, goes to the catch.
CreateStatementRecord(u) ==
  /\ uploads[u].pc = "create"
  /\ IF checksumTaken(uploads[u].user, uploads[u].checksum)
     THEN /\ uploads' = [uploads EXCEPT ![u] =
               Returned(u, "conflict", FALSE, "Upload failed", 0)]
          /\ UNCHANGED <<statementTable, flows, faults>>
     ELSE \/ LET id == Cardinality(statementTable) + 1 IN
             /\ statementTable' = statementTable \cup
                  { [id |-> id, user_id |-> uploads[u].user,
                     checksum |-> uploads[u].checksum] }
             /\ flows' = flows \cup {id}
             /\ uploads' = [uploads EXCEPT ![u] =
                  Returned(u, "accepted", TRUE, "is being processed", id)]
             /\ UNCHANGED faults
          \/ /\ CanFault
             /\ faults' = faults + 1
             /\ uploads' = [uploads EXCEPT ![u] =
                  Returned(u, "failed", FALSE, "Upload failed", 0)]
             /\ UNCHANGED <<statementTable, flows>>
  /\ UNCHANGED <<disableDuplicateDetection, uploadsMade, otherVars>>

\* The process runs with duplicate detection on or off.
InitUpload ==
  /\ categories = { [id |-> 1, user_id |-> "u1", name |-> "Dining"],
                    [id |-> 2, user_id |-> "u2", name |-> "Dining"] }
  /\ nextCategoryId = 3
  /\ disableDuplicateDetection \in BOOLEAN
  /\ InitRest

NextUpload ==
  \E u \in Uploads :
    \/ BeginUpload(u)
    \/ CheckDuplicate(u)
    \/ UploadToStorage(u)
    \/ CreateStatementRecord(u)

SpecUpload == InitUpload /\ [][NextUpload]_vars

\* C20: with duplicate detection on, a user and a checksum have at most one
\* statement record, and at most one ingestion flow was started for them.
C20_OneStatementPerChecksum ==
  ~disableDuplicateDetection =>
    \A userId \in Users, digest \in Checksums :
       LET same == {st \in statementTable :
                      st.user_id = userId /\ st.checksum = digest}
       IN /\ Cardinality(same) <= 1
          /\ Cardinality({f \in flows : \E st \in same : st.id = f}) <= 1

\* C20 witness: two calls of one user with one file both passed the
\* duplicate check; one created the record, the other's create was
\* rejected by the index.
C20_Witness ==
  /\ ~disableDuplicateDetection
  /\ \E u, v \in Uploads :
       /\ uploads[u].pc = "accepted"
       /\ uploads[v].pc = "conflict"
       /\ uploads[u].user = uploads[v].user
       /\ uploads[u].checksum = uploads[v].checksum
       /\ Cardinality(flows) = 1

\* The request of slot u fails at request level: no authentication, no
\* file, a file that is not a PDF or is over the size limit, or (duplicate
\* detection on) a document the user had already uploaded when the call
\* began.
RequestFailure(u) ==
  /\ uploads[u].pc # "idle"
  /\ \/ uploads[u].user = NoUserId
     \/ uploads[u].file = NoFile
     \/ uploads[u].file.size = 0
     \/ uploads[u].file.type # "application/pdf"
     \/ uploads[u].file.size > MAX_FILE_SIZE
     \/ ~disableDuplicateDetection /\ uploads[u].known

C21_RejectedResult ==
  \A u \in Uploads :
    RequestFailure(u) /\ ~Uploading(u) =>
      /\ uploads[u].result.success = FALSE
      /\ uploads[u].result.message # ""
      /\ uploads[u].result.statementId = 0
      /\ uploads[u].pc \notin {"accepted", "conflict"}

C21_NothingCreated ==
  \A u \in Uploads :
    RequestFailure(u)' /\ uploads'[u] # uploads[u] =>
      /\ statementTable' = statementTable
      /\ flows' = flows
      /\ uploads'[u].pc # "create"

\* C21: a call of uploadStatement that fails at request level returns
\* success = false with a message and no statement id, and no step of it
\* creates a statement record or starts an ingestion flow.
C21_RejectedBeforeCreate ==
  []C21_RejectedResult /\ [][C21_NothingCreated]_vars

\* C21 witness: after one accepted upload, the same user's second upload of
\* the same document was refused as a duplicate and another call was refused
\* for its file or its missing authentication; one statement, one flow.
C21_Witness ==
  /\ ~disableDuplicateDetection
  /\ \E u, v \in Uploads :
       /\ u # v
       /\ uploads[u].pc = "duplicate"
       /\ uploads[u].known
       /\ uploads[v].pc \in {"invalid", "unauthenticated"}
       /\ uploads[v].result.message # ""
       /\ Cardinality(statementTable) = 1
       /\ Cardinality(flows) = 1

(***************************************************************************)
(* ensureBucketExists / uploadToStorage                                    *)
(***************************************************************************)
\* Mutant: ensureBucketExists without the bucketPromise memo.
startsProvisioningUnlessReady(ready, promise) == ~ready

\* ensureBucketExists: neither "if (bucketReady) return" nor
\* "if (bucketPromise)" was taken.
startsProvisioning(ready, promise) == ~ready /\ promise = "null"

mainVars == <<dbVars, flowVars, catVars, capVars, storeVars, viewVars,
              statusVars, upVars, ladderVars, mapVars, obs>>

\* uploadToStorage calls ensureBucketExists, which runs without an await up
\* to its first request: the flag and the promise are read and the closure
\* is started (getBucket sent, bucketPromise assigned) in one step.
EnsureBucketExists(c) ==
  /\ storing[c] = "idle"
  /\ IF startsProvisioning(bucketReady, bucketPromise)
     THEN /\ bucketPromise' = "pending"
          /\ provision' = "getBucket"
          /\ bucketCalls' = [bucketCalls EXCEPT !.getBucket = @ + 1]
          /\ storing' = [storing EXCEPT ![c] = "await"]
     ELSE /\ storing' = [storing EXCEPT ![c] =
                           IF bucketReady THEN "upload" ELSE "await"]
          /\ UNCHANGED <<bucketPromise, provision, bucketCalls>>
  /\ UNCHANGED <<bucketReady, bucket, mainVars, faults>>

\* supabase.storage.getBucket answered: the bucket, 404, or another error.
GetBucketAnswered ==
  /\ provision = "getBucket"
  /\ \/ /\ bucket
        /\ provision' = "found"
        /\ bucketReady' = TRUE
        /\ bucketPromise' = "resolved"
        /\ UNCHANGED <<bucketCalls, faults>>
     \/ /\ ~bucket
        /\ provision' = "createBucket"
        /\ bucketCalls' = [bucketCalls EXCEPT !.createBucket = @ + 1]
        /\ UNCHANGED <<bucketReady, bucketPromise, faults>>
     \/ /\ CanFault
        /\ faults' = faults + 1
        /\ provision' = "threw"
        /\ bucketPromise' = "rejected"
        /\ UNCHANGED <<bucketReady, bucketCalls>>
  /\ UNCHANGED <<bucket, storing, mainVars>>

\* supabase.storage.createBucket answered: created, 409 (already exists),
\* or another error.
CreateBucketAnswered ==
  /\ provision = "createBucket"
  /\ \/ /\ ~bucket
        /\ bucket' = TRUE
        /\ provision' = "created"
        /\ bucketReady' = TRUE
        /\ bucketPromise' = "resolved"
        /\ UNCHANGED faults
     \/ /\ bucket
        /\ provision' = "tolerated"
        /\ bucketReady' = TRUE
        /\ bucketPromise' = "resolved"
        /\ UNCHANGED <<bucket, faults>>
     \/ /\ CanFault
        /\ faults' = faults + 1
        /\ provision' = "threw"
        /\ bucketPromise' = "rejected"
        /\ UNCHANGED <<bucket, bucketReady>>
  /\ UNCHANGED <<storing, bucketCalls, mainVars>>

\* Another process, or an operator, creates the bucket.
BucketCreatedElsewhere ==
  /\ ~bucket
  /\ bucket' = TRUE
  /\ UNCHANGED <<bucketReady, bucketPromise, provision, storing, bucketCalls,
                 mainVars, faults>>

\* await bucketPromise settles for a caller.
AwaitBucket(c) ==
  /\ storing[c] = "await"
  /\ bucketPromise \in {"resolved", "rejected"}
  /\ storing' = [storing EXCEPT ![c] =
                   IF bucketPromise = "resolved" THEN "upload" ELSE "threw"]
  /\ UNCHANGED <<bucketReady, bucketPromise, provision, bucket, bucketCalls,
                 mainVars, faults>>

\* supabase.storage.from(STORAGE_BUCKET).upload(...) answered.
StorageUpload(c) ==
  /\ storing[c] = "upload"
  /\ \/ /\ bucket
        /\ storing' = [storing EXCEPT ![c] = "returned"]
        /\ UNCHANGED faults
     \/ /\ CanFault
        /\ faults' = faults + 1
        /\ storing' = [storing EXCEPT ![c] = "threw"]
  /\ UNCHANGED <<bucketReady, bucketPromise, provision, bucket, bucketCalls,
                 mainVars>>

\* The request that made the call ends; the process takes another.
NextRequest(c) ==
  /\ storing[c] \in {"returned", "threw"}
  /\ uploadsMade < MaxUploads
  /\ uploadsMade' = uploadsMade + 1
  /\ storing' = [storing EXCEPT ![c] = "idle"]
  /\ UNCHANGED <<bucketReady, bucketPromise, provision, bucket, bucketCalls,
                 disableDuplicateDetection, uploads, statementTable, flows,
                 dbVars, flowVars, catVars, capVars, storeVars, viewVars,
                 statusVars, ladderVars, mapVars, obs, faults>>

NextBucket ==
  \/ GetBucketAnswered
  \/ CreateBucketAnswered
  \/ BucketCreatedElsewhere
  \/ \E c \in StorageCalls :
       \/ EnsureBucketExists(c)
       \/ AwaitBucket(c)
       \/ StorageUpload(c)
       \/ NextRequest(c)

SpecBucket == Init /\ [][NextBucket]_vars

\* C22: getBucket and createBucket are each sent at most once in the
\* process, the readiness flag is set only when the closure ended with the
\* bucket found, created or a tolerated 409 (and the bucket then exists),
\* a 409 from createBucket resolves the promise, and no caller reaches the
\* upload before the flag is set.
C22_ProvisionedOnce ==
  /\ bucketCalls.getBucket <= 1
  /\ bucketCalls.createBucket <= 1
  /\ bucketReady <=> provision \in {"found", "created", "tolerated"}
  /\ bucketReady => bucket /\ bucketPromise = "resolved"
  /\ \A c \in StorageCalls :
       storing[c] \in {"upload", "returned"} => bucketReady

\* C22 witness: the first three calls of the process, one closure run,
\* createBucket answered 409, and all three calls went on to upload.
C22_Witness ==
  /\ provision = "tolerated"
  /\ bucketCalls = [getBucket |-> 1, createBucket |-> 1]
  /\ uploadsMade = 0
  /\ \A c \in StorageCalls : storing[c] \in {"upload", "returned"}

(***************************************************************************)
(* createPermissiveExpenseSchema / extractExpensesFromPdf                  *)
(***************************************************************************)
\* JavaScript's truthiness, String(v) and Number(v) || 0.
truthy(v) ==
  CASE v.t = "string" -> v.s # ""
    [] v.t = "number" -> v.n # 0
    [] v.t \in {"null", "undefined"} -> FALSE
    [] OTHER -> TRUE

orElse(v, fallback) == IF truthy(v) THEN v ELSE fallback

ToJsString(v) ==
  JsString(CASE v.t = "number" -> ToString(v.n)
             [] v.t = "null" -> "null"
             [] v.t = "undefined" -> "undefined"
             [] OTHER -> v.s)

NumberOrZero(v) ==
  JsNumber(CASE v.t = "number" -> v.n
             [] v.t = "boolean" -> v.n
             [] v.t = "string" ->
                  IF \E pair \in NumberTable : pair[1] = v.s
                  THEN (CHOOSE pair \in NumberTable : pair[1] = v.s)[2]
                  ELSE 0
             [] OTHER -> 0)

\* What a schema gives for a value: whether it matched, the output, and
\* whether its transform threw.
Parsed(success, data) == [success |-> success, data |-> data, threw |-> FALSE]

NoMatch == Parsed(FALSE, NoFields)

Threw == [success |-> FALSE, data |-> NoFields, threw |-> TRUE]

Placeholder(description) ==
  [date |-> JsString(""), description |-> JsString(description),
   merchant |-> JsString(""), category |-> JsString("Other"),
   original_amount |-> JsNumber(0), original_currency |-> JsString("SGD")]

\* createAiExpenseSchema(validCategories)
originalSchema(data, validCategories) ==
  IF /\ data.t = "object"
     /\ \A k \in {"date", "description", "merchant", "category",
                  "original_currency"} : data.f[k].t = "string"
     /\ data.f.category.s \in validCategories \cup {"Other"}
     /\ data.f.original_amount.t = "number"
  THEN Parsed(TRUE, [data.f EXCEPT !.category =
                       IF data.f.category.s \in validCategories
                       THEN data.f.category ELSE JsString("Other")])
  ELSE NoMatch

\* The object literal both transforms build from the properties of a value;
\* reading a property of null is a TypeError.
coerce(data, categoryList) ==
  IF data.t \in {"null", "undefined"}
  THEN Threw
  ELSE Parsed(TRUE,
         [date |-> ToJsString(orElse(data.f.date, JsString(""))),
          description |-> ToJsString(orElse(data.f.description, JsString(""))),
          merchant |-> ToJsString(orElse(data.f.merchant, JsString(""))),
          category |-> IF ToJsString(data.f.category).s \in categoryList
                       THEN ToJsString(data.f.category)
                       ELSE JsString("Other"),
          original_amount |-> NumberOrZero(data.f.original_amount),
          original_currency |->
            ToJsString(orElse(data.f.original_currency, JsString("SGD")))])

JSONparse(text) ==
  IF \E pair \in JsonTable : pair[1] = text
  THEN (CHOOSE pair \in JsonTable : pair[1] = text)[2]
  ELSE SyntaxError

\* z.string().transform(...): everything inside the try, the catch's
\* placeholder for whatever is thrown there.
stringSchema(data, categoryList) ==
  IF data.t # "string"
  THEN NoMatch
  ELSE LET parsed == JSONparse(data.s)
           result == originalSchema(parsed, categoryList)
       IN IF parsed = SyntaxError THEN Parsed(TRUE, Placeholder("Invalid JSON"))
          ELSE IF result.success THEN result
          ELSE IF coerce(parsed, categoryList).threw
               THEN Parsed(TRUE, Placeholder("Invalid JSON"))
               ELSE coerce(parsed, categoryList)

\* Mutant: the permissive transform without the "data !== null" test.
coercibleByTypeof(data) == data.t \in {"object", "array", "null"}

\* typeof data === "object" && data !== null
coercible(data) == data.t \in {"object", "array", "null"} /\ data.t # "null"

\* z.any().transform(...)
permissiveSchema(data, categoryList) ==
  IF coercible(data)
  THEN coerce(data, categoryList)
  ELSE Parsed(TRUE, Placeholder("Unknown data type"))

\* z.union([originalSchema, stringSchema, permissiveSchema])
createPermissiveExpenseSchema(data, categoryList) ==
  IF originalSchema(data, categoryList).success
  THEN originalSchema(data, categoryList)
  ELSE IF stringSchema(data, categoryList).success
  THEN stringSchema(data, categoryList)
  ELSE permissiveSchema(data, categoryList)

ladderRest == <<dbVars, flowVars, catVars, capVars, storeVars, viewVars,
                statusVars, upVars, bucketVars, mapVars, obs, faults>>

\* extractExpensesFromPdf(fileBuffer, categoryList)
BeginExtraction ==
  /\ extraction = "idle"
  /\ \E categoryList \in CategorySets :
       schemaCategories' = categoryList
  /\ extraction' = "streaming"
  /\ UNCHANGED <<elements, yielded, ladderRest>>

\* The model completes one more array element; elementStream validates it
\* and the generator yields it ("if (element)": an output object is truthy).
YieldElement ==
  /\ extraction = "streaming"
  /\ Len(elements) < MaxElements
  /\ \E data \in RawElements :
       LET element == createPermissiveExpenseSchema(data, schemaCategories)
       IN /\ elements' = Append(elements, data)
          /\ IF element.threw
             THEN /\ extraction' = "threw"
                  /\ UNCHANGED yielded
             ELSE /\ yielded' = Append(yielded, element.data)
                  /\ UNCHANGED extraction
  /\ UNCHANGED <<schemaCategories, ladderRest>>

NextLadder == BeginExtraction \/ YieldElement

SpecLadder == Init /\ [][NextLadder]_vars

WellTyped(element) ==
  /\ DOMAIN element = FieldNames
  /\ \A k \in FieldNames \ {"original_amount"} : element[k].t = "string"
  /\ element.original_amount.t = "number"

\* C23: whatever elements the model produces, the schema does not throw and
\* the generator has yielded one output per element, each with five string
\* fields and a numeric amount, its category one of categoryList or
\* "Other".
C23_LadderTotal ==
  /\ extraction # "threw"
  /\ Len(yielded) = Len(elements)
  /\ \A i \in 1..Len(yielded) :
       /\ WellTyped(yielded[i])
       /\ yielded[i].category.s \in schemaCategories \cup {"Other"}

\* C23 witness: a string that is not JSON became the "Invalid JSON"
\* placeholder and a record with an unknown category was yielded as "Other".
C23_Witness ==
  /\ Len(elements) = 2
  /\ elements[1] = Element("string", "not json", NoFields)
  /\ yielded[1] = Placeholder("Invalid JSON")
  /\ elements[2] = ObjectUnknownCategory
  /\ "Gambling" \notin schemaCategories
  /\ yielded[2].category.s = "Other"
  /\ yielded[2].description.s = "Bet"

(***************************************************************************)
(* Currency conversion fallback                                            *)
(***************************************************************************)
\* The rate source did not answer for the k-th candidate of statement s.
ConversionFailed(s, k) == k \in 1..Len(obs[s].fx) /\ ~obs[s].fx[k]

C24_FallbackAmount ==
  \A s \in Statements :
     /\ pc[s] \in {"mapping", "resolve", "create", "insert"}
        /\ ConversionFailed(s, expenseCount[s])
        => /\ cur[s].amount_sgd = cur[s].expense.original_amount
           /\ cur[s].line_hash =
                createExpenseHash(cur[s].expense.date,
                                  cur[s].expense.description,
                                  cur[s].expense.original_amount)
     /\ LET rows == StatementRows(s) IN
        \A i \in 1..Len(rows) :
           ConversionFailed(s, ItemPosition(s, rows[i]))
             => rows[i].amount_sgd = rows[i].original_amount
     /\ pc[s] = "done" /\ faults = 0 /\ ~obs[s].loopError
        /\ (\E k \in 1..Len(obs[s].fx) : ConversionFailed(s, k))
        => /\ status[s] = "completed"
           /\ \A k \in 1..Len(Documents[doc[s]]) :
                ConversionFailed(s, k) =>
                  \E i \in 1..Len(expenses) :
                     /\ expenses[i].user_id = owner[s]
                     /\ expenses[i].date = Documents[doc[s]][k].date
                     /\ expenses[i].description =
                          Documents[doc[s]][k].description
                     /\ expenses[i].amount_sgd =
                          Documents[doc[s]][k].original_amount

C24_FailureDoesNotThrow ==
  \A s \in Statements :
     Len(obs'[s].fx) > Len(obs[s].fx) /\ ~obs'[s].fx[Len(obs'[s].fx)]
       => /\ pc'[s] \in {"mapping", "resolve"}
          /\ obs'[s].loopError = obs[s].loopError

\* C24: a candidate whose conversion failed goes on with amount_sgd equal to
\* its original amount (and the hash over that amount), is stored with that
\* amount, the failure moves nothing to the catch block, and a flow in which
\* nothing else failed ends completed with those candidates stored.
C24_ConversionFallback ==
  []C24_FallbackAmount /\ [][C24_FailureDoesNotThrow]_vars

\* C24 witness: a completed statement holding a foreign-currency row whose
\* conversion failed, stored with the original amount.
C24_Witness ==
  \E s \in Statements :
     /\ status[s] = "completed"
     /\ \E i \in 1..Len(expenses) :
          /\ expenses[i].statement_id = s
          /\ expenses[i].original_currency # BASE_CURRENCY
          /\ ConversionFailed(s, ItemPosition(s, expenses[i]))
          /\ expenses[i].amount_sgd = expenses[i].original_amount

(***************************************************************************)
(* The five-candidate document                                             *)
(***************************************************************************)
\* uploadStatement of the document whose stream yields four well-formed
\* records and, third, the output for a string that is not JSON.  The
\* document is uploaded once, to a store without any of its lines.
StartMixed(s) ==
  /\ pc[s] = "idle"
  /\ \A t \in Statements : doc[t] # "mixed"
  /\ \E u \in Users : owner' = [owner EXCEPT ![s] = u]
  /\ doc' = [doc EXCEPT ![s] = "mixed"]
  /\ status' = [status EXCEPT ![s] = "processing"]
  /\ pc' = [pc EXCEPT ![s] = "fetch"]
  /\ obs' = Obs(s, "after", {t \in Statements : pc[t] = "done"})
  /\ UNCHANGED <<categories, nextCategoryId, mappings, expenses,
                 categoryNames, expenseCount, cur, raised, faults>>
  /\ UNCHANGED <<catVars, auxVars>>

NextMixed ==
  \E s \in Statements :
    \/ StartMixed(s)
    \/ FetchCategories(s)
    \/ Pull(s)
    \/ LookupMapping(s)
    \/ ResolveCategory(s)
    \/ CreateCategory(s)
    \/ InsertExpense(s)
    \/ Finish(s)
    \/ Catch(s)

SpecMixed == Init /\ [][NextMixed]_vars

\* C25: the document with four well-formed candidates and one that is not
\* JSON, ingested with nothing persisted before and no call rejected, ends
\* with exactly four rows of the statement and status completed.
C25_FourPersisted ==
  \A s \in Statements :
     /\ doc[s] = "mixed"
     /\ pc[s] = "done"
     /\ faults = 0
     /\ obs[s].duplicates = 0
     => /\ Len(StatementRows(s)) = 4
        /\ status[s] = "completed"

(***************************************************************************)
(* Merchant mappings                                                       *)
(***************************************************************************)
\* Mutant: the merchant_mappings collection has no unique index.
mappingNameTakenNowhere(userId, merchantName) == FALSE

\* idx_merchant_mappings_unique ON merchant_mappings (user_id, merchant_name)
mappingNameTaken(userId, merchantName) ==
  \E m \in mappings : m.user_id = userId /\ m.merchant_name = merchantName

mapRest == <<categories, nextCategoryId, expenses, status, flowVars, capVars,
             storeVars, viewVars, statusVars, upVars, bucketVars, ladderVars,
             call, lastCall, obs>>

MapReturned(c, how, result) ==
  [mapCall EXCEPT ![c].pc = how, ![c].result = result]

\* createMerchantMapping, updateMerchantMapping or deleteMerchantMapping is
\* called.
BeginMapping(c) ==
  /\ mapCall[c].pc \in {"idle", "returned", "threw"}
  /\ callsMade < MaxCalls
  /\ callsMade' = callsMade + 1
  /\ \E op \in {"create", "update", "delete"}, userId \in Users,
        merchantName \in MerchantNames, category \in MappingCategories :
       mapCall' = [mapCall EXCEPT ![c] =
         [NoMapCall EXCEPT !.pc = IF op = "create" THEN "create" ELSE "find",
                           !.op = op, !.user = userId,
                           !.name = merchantName,
                           !.category = IF op = "delete" THEN ""
                                        ELSE category]]
  /\ UNCHANGED <<mappings, nextMappingId, mapRest, faults>>

\* createMerchantMapping: create({user_id, merchant_name:
\* merchantName.toUpperCase(), category}) inside try/catch; every rejection
\* returns false.
CreateMapping(c) ==
  /\ mapCall[c].pc = "create"
  /\ IF mappingNameTaken(mapCall[c].user, toUpperCase(mapCall[c].name))
     THEN /\ mapCall' = MapReturned(c, "returned", FALSE)
          /\ UNCHANGED <<mappings, nextMappingId, faults>>
     ELSE \/ /\ mappings' = mappings \cup
                  { [id |-> nextMappingId, user_id |-> mapCall[c].user,
                     merchant_name |-> toUpperCase(mapCall[c].name),
                     category |-> mapCall[c].category] }
             /\ nextMappingId' = nextMappingId + 1
             /\ mapCall' = MapReturned(c, "returned", TRUE)
             /\ UNCHANGED faults
          \/ /\ CanFault
             /\ faults' = faults + 1
             /\ mapCall' = MapReturned(c, "returned", FALSE)
             /\ UNCHANGED <<mappings, nextMappingId>>
  /\ UNCHANGED <<callsMade, mapRest>>

\* updateMerchantMapping / deleteMerchantMapping, first await: getList(1, 1)
\* by user_id and merchantName.toUpperCase(); "if (!record) return false".
FindMapping(c) ==
  /\ mapCall[c].pc = "find"
  /\ \/ LET found == getMerchantMapping(mapCall[c].user, mapCall[c].name)
        IN /\ mapCall' =
                IF found = {}
                THEN MapReturned(c, "returned", FALSE)
                ELSE [mapCall EXCEPT ![c].pc = "write",
                        ![c].record = (CHOOSE m \in found : TRUE).id]
           /\ UNCHANGED faults
     \/ /\ CanFault
        /\ faults' = faults + 1
        /\ mapCall' = MapReturned(c, "threw", FALSE)
  /\ UNCHANGED <<mappings, nextMappingId, callsMade, mapRest>>

\* Second await: update(record.id, {category: newCategory}) or
\* delete(record.id); a rejection (the record is gone, or the environment)
\* is thrown to the caller.
WriteMapping(c) ==
  /\ mapCall[c].pc = "write"
  /\ IF ~\E m \in mappings : m.id = mapCall[c].record
     THEN /\ mapCall' = MapReturned(c, "threw", FALSE)
          /\ UNCHANGED <<mappings, faults>>
     ELSE \/ /\ mappings' =
                  IF mapCall[c].op = "delete"
                  THEN {m \in mappings : m.id # mapCall[c].record}
                  ELSE {IF m.id = mapCall[c].record
                        THEN [m EXCEPT !.category = mapCall[c].category]
                        ELSE m : m \in mappings}
             /\ mapCall' = MapReturned(c, "returned", TRUE)
             /\ UNCHANGED faults
          \/ /\ CanFault
             /\ faults' = faults + 1
             /\ mapCall' = MapReturned(c, "threw", FALSE)
             /\ UNCHANGED mappings
  /\ UNCHANGED <<nextMappingId, callsMade, mapRest>>

NextMap ==
  \E c \in Clients :
    \/ BeginMapping(c)
    \/ CreateMapping(c)
    \/ FindMapping(c)
    \/ WriteMapping(c)

SpecMap == Init /\ [][NextMap]_vars

C26_OnePerName ==
  /\ \A m1, m2 \in mappings :
       /\ m1.user_id = m2.user_id
       /\ toUpperCase(m1.merchant_name) = toUpperCase(m2.merchant_name)
       => m1 = m2
  /\ \A m \in mappings, n \in MerchantNames :
       toUpperCase(n) = toUpperCase(m.merchant_name)
         => getMerchantMapping(m.user_id, n) = {m}
  /\ \A c \in Clients : mapCall[c].op = "create" => mapCall[c].pc # "threw"

C26_LosingCreateIgnored ==
  \A c \in Clients :
     /\ mapCall[c].pc = "create"
     /\ mapCall'[c].pc # "create"
     /\ \E m \in mappings :
          /\ m.user_id = mapCall[c].user
          /\ toUpperCase(m.merchant_name) = toUpperCase(mapCall[c].name)
     => /\ mapCall'[c].pc = "returned"
        /\ mapCall'[c].result = FALSE
        /\ mappings' = mappings

\* C26: a user has at most one mapping per uppercased merchant name, a
\* lookup by any spelling of the name finds it, createMerchantMapping never
\* throws, and a create for a name that has a mapping returns false and
\* leaves the mappings as they are.
C26_MappingsUnique == []C26_OnePerName /\ [][C26_LosingCreateIgnored]_vars

\* C26 witness: two creates for one user and two spellings of a new name,
\* different categories; the first was stored, the second returned false
\* and the first's category stands.
C26_Witness ==
  \E c, d \in Clients :
     /\ c # d
     /\ mapCall[c].op = "create" /\ mapCall[d].op = "create"
     /\ mapCall[c].pc = "returned" /\ mapCall[d].pc = "returned"
     /\ mapCall[c].result /\ ~mapCall[d].result
     /\ mapCall[c].user = mapCall[d].user
     /\ mapCall[c].name # mapCall[d].name
     /\ mapCall[c].category # mapCall[d].category
     /\ faults = 0
     /\ \E m \in mappings :
          /\ m.user_id = mapCall[c].user
          /\ m.merchant_name = toUpperCase(mapCall[d].name)
          /\ m.category = mapCall[c].category

(***************************************************************************)
(* Insert failures                                                         *)
(***************************************************************************)
\* C27: an insert that failed for another reason than the unique index
\* takes the flow to the catch block, and no statement is completed with
\* such an insert among its candidates.
C27_OnlyUniqueAbsorbed ==
  \A s \in Statements :
     /\ obs[s].dropped > 0 => pc[s] \in {"catch", "done"} /\ obs[s].loopError
     /\ status[s] = "completed" => obs[s].dropped = 0

(***************************************************************************)
(* Initial fetch against live events                                       *)
(***************************************************************************)
\* How many entries of the viewer's list have this id.
Entries(id) == Cardinality({i \in 1..Len(view) : view[i].id = id})

\* C28: with only create events, nothing lost on the transport, the fetch
\* applied and every event delivered, the list holds each stored expense of
\* the tracked statements exactly once and no other.
C28_FetchAndEventsAgree ==
  ( /\ viewer.phase = "live"
    /\ viewer.fetch = "done"
    /\ sse = << >>
    /\ faults = 0
    /\ writes = Cardinality(Stored) )
  => \A id \in ExpenseIds : Entries(id) = IF id \in Tracked THEN 1 ELSE 0


\* The statuses the list of useStatementStatus shows for a statement.
ShownStatus(list, s) == {list[i].status : i \in {j \in 1..Len(list) : list[j].id = s}}

\* A step after which a statement that was shown completed or failed is
\* shown as processing.
BackToProcessing(s) ==
  /\ ShownStatus(statusList, s) \cap Terminal # {}
  /\ "processing" \in ShownStatus(statusList', s)

\* C29: once useStatementStatus has shown completed or failed for a
\* statement, no step of the hook (applying a fetch result, handling an
\* event) makes it show processing for that statement again.
C29_StatusMonotonic ==
  [][\A s \in Statements : ~BackToProcessing(s)]_vars


\* C30: a hook that is mounted keeps its callback on the realtime client,
\* so keeps receiving the collection's events, whatever the other hook on
\* the same client does, its cleanup included.
C30_ViewersIndependent ==
  faults = 0 =>
    /\ viewer.phase = "live" => "upload" \in listeners
    /\ live.phase = "live" => "live" \in listeners

====
